---- MODULE Spec2Model ----
(***************************************************************************)
(* Render scheduling and caching of vscode-tikz: the CacheManager over     *)
(* the extension's globalState (Persistent Cache), the PreviewManager's    *)
(* in-memory cache, its promise chain around tex2svg and its               *)
(* renderDocument / retryBlock orchestration.                              *)
(*                                                                         *)
(* JavaScript runs one task at a time and yields only at an await, so one  *)
(* action is the code between two awaits.  An optional value (T or         *)
(* undefined) is a sequence of length at most one: <<>> is undefined.      *)
(***************************************************************************)
EXTENDS Integers, Sequences, FiniteSets, TLC

\* ---------------------------------------------------------------- bounds
\* calls of renderDocument / retryBlock made in one behaviour
MaxTasks == 2
\* cap of a stored entry's accessCount
MaxAccessCount == 3

\* ------------------------------------------------------------ text, hash
WhiteSpace == {" ", "\n"}

SrcA == <<"\n", "a", "\n">>
SrcA2 == <<"\n", " ", "a", " ", "\n">>
SrcB == <<"\n", "b", "\n">>

\* String.prototype.trim
RECURSIVE TrimStart(_)
TrimStart(s) ==
    IF s # <<>> /\ Head(s) \in WhiteSpace THEN TrimStart(Tail(s)) ELSE s

RECURSIVE TrimEnd(_)
TrimEnd(s) ==
    IF s # <<>> /\ s[Len(s)] \in WhiteSpace
    THEN TrimEnd(SubSeq(s, 1, Len(s) - 1))
    ELSE s

Trim(s) == TrimEnd(TrimStart(s))

\* sha256 hex digest: one value per distinct input (collision free)
GenerateHash(source) == [sha256 |-> source]

\* a fingerprint taken of the source as written, white space included
TikzHashUntrimmed(source) == GenerateHash(source)
\* TikzBlock.constructor: this.hash = generateHash(source.trim())
TikzHash(source) == GenerateHash(Trim(source))

TikzBlock(source) == [source |-> source, hash |-> TikzHash(source)]

\* documents, as the code contents of their tikz fences in document order
DocDup == <<SrcA, SrcA2>>
DocTwo == <<SrcA, SrcB>>
DocEmpty == <<>>
Docs == {DocDup, DocTwo, DocEmpty}

Sources == {SrcA, SrcA2, SrcB}

\* the sources retryBlock is called with
RetrySources == {SrcA}

\* DocumentParser.parse: one TikzBlock per fence, in document order
Parse(document) == [i \in 1..Len(document) |-> TikzBlock(document[i])]

Hashes == {TikzHash(s) : s \in Sources}

Range(s) == {s[i] : i \in 1..Len(s)}

\* ------------------------------------------------------------------- svg
RawSvg(body) == [body |-> body, optimized |-> FALSE, dark |-> FALSE]

\* what tex2svg can return
RawSvgs == {RawSvg("<svg>A</svg>"), RawSvg("<svg>B</svg>")}

\* tex2svg, when it succeeds: a compilation, the same output for the same
\* preprocessed source (preprocessSource trims the source)
Tex2Svg(source) ==
    IF Trim(source) = <<"a">> THEN RawSvg("<svg>A</svg>") ELSE RawSvg("<svg>B</svg>")

\* Date.now() readings
Times == {1, 2}

\* postProcessSvg: SVGO optimisation, then the colour transform under darkMode
PostProcessSvg(svg, darkMode) ==
    [svg EXCEPT !.optimized = TRUE, !.dark = (svg.dark \/ darkMode)]

\* ----------------------------------------------------------- CacheEntry
CacheEntry(hash, svg, timestamp, accessCount) ==
    [hash |-> hash, svg |-> svg, timestamp |-> timestamp, accessCount |-> accessCount]

\* a touch that counts one access as two
TouchTwice(entry) == [entry EXCEPT !.accessCount = @ + 2]
\* CacheEntry.touch
Touch(entry) == [entry EXCEPT !.accessCount = @ + 1]

\* ---------------------------------------------------------- CacheManager
\* globalState: cache[h] is the value under 'tikzjax.cache.' + h, index the
\* value under 'tikzjax.cache.index' (each undefined when <<>>)
EmptyGlobalState == [cache |-> [h \in Hashes |-> <<>>], index |-> <<>>]

\* getIndex: globalState.get(CACHE_INDEX_KEY) || []
GetIndex(gs) == IF gs.index = <<>> THEN <<>> ELSE gs.index[1]

\* an append to the index without the includes test
AddToIndexAlways(gs, hash) == [gs EXCEPT !.index = <<Append(GetIndex(gs), hash)>>]
\* addToIndex
AddToIndex(gs, hash) ==
    LET index == GetIndex(gs) IN
    IF hash \notin Range(index)
    THEN [gs EXCEPT !.index = <<Append(index, hash)>>]
    ELSE gs

\* a removal that writes an empty index
RemoveFromIndexAll(gs, hash) == [gs EXCEPT !.index = <<<<>>>>]
\* removeFromIndex
RemoveFromIndex(gs, hash) ==
    [gs EXCEPT !.index = <<SelectSeq(GetIndex(gs), LAMBDA h : h # hash)>>]

\* a get that stamps the entry it returns with the first time
CmGetRestamps(gs, hash) ==
    LET data == gs.cache[hash] IN
    IF data = <<>>
    THEN [gs |-> gs, entry |-> <<>>]
    ELSE LET entry == Touch(CacheEntry(data[1].hash, data[1].svg, 1, data[1].accessCount))
         IN [gs |-> [gs EXCEPT !.cache[hash] = <<entry>>], entry |-> <<entry>>]

\* get: the entry returned (or undefined) and the store after the touch
CmGet(gs, hash) ==
    LET data == gs.cache[hash] IN
    IF data = <<>>
    THEN [gs |-> gs, entry |-> <<>>]
    ELSE LET entry == Touch(CacheEntry(data[1].hash, data[1].svg,
                                       data[1].timestamp, data[1].accessCount))
         IN [gs |-> [gs EXCEPT !.cache[hash] = <<entry>>], entry |-> <<entry>>]

\* set, up to its first await: globalState.update(key, {...})
CmSetEntry(gs, hash, diagram) ==
    [gs EXCEPT !.cache[hash] =
        <<CacheEntry(diagram.hash, diagram.svg, diagram.timestamp, diagram.accessCount)>>]

\* set, awaited
CmSet(gs, hash, diagram) == AddToIndex(CmSetEntry(gs, hash, diagram), hash)

\* invalidate, up to its first await: globalState.update(key, undefined)
CmInvalidateEntry(gs, hash) == [gs EXCEPT !.cache[hash] = <<>>]

\* invalidate, awaited
CmInvalidate(gs, hash) == RemoveFromIndex(CmInvalidateEntry(gs, hash), hash)

\* a clear that removes the index key and leaves the entries
CmClearIndexOnly(gs) == [gs EXCEPT !.index = <<>>]
\* clear, awaited: every indexed entry removed, then the index key removed
CmClear(gs) ==
    LET index == GetIndex(gs) IN
    [cache |-> [h \in Hashes |-> IF h \in Range(index) THEN <<>> ELSE gs.cache[h]],
     index |-> <<>>]

\* the loop of getStats over the index read at its start
RECURSIVE GetStatsLoop(_, _, _, _)
GetStatsLoop(gs, index, i, totalSize) ==
    IF i > Len(index)
    THEN [gs |-> gs, stats |-> [entryCount |-> Len(index), totalSize |-> totalSize]]
    ELSE LET got == CmGet(gs, index[i]) IN
         GetStatsLoop(got.gs, index, i + 1,
                      IF got.entry # <<>>
                      THEN totalSize + Len(got.entry[1].svg.body) + 100
                      ELSE totalSize)

\* getStats, awaited
CmGetStats(gs) == GetStatsLoop(gs, GetIndex(gs), 1, 0)

VARIABLES
    globalState,         \* the extension's Memento (Persistent Cache)
    lastCall,            \* the last CacheManager call made by a cache user, with its return
    live,                \* fingerprints set and not invalidated or cleared since
    svgCache,            \* PreviewManager._svgCache
    isRendering,         \* PreviewManager._isRendering
    tikzjaxLoaded,       \* PreviewManager._tikzjaxLoaded
    tikzjaxLoadPromise,  \* PreviewManager._tikzjaxLoadPromise: 0 is null, else a load
    loads,               \* the loads of node-tikzjax started so far, each with its state
    renderChain,         \* PreviewManager._renderChain: 0 is the initial resolved
                         \* promise, k the promise of request k
    requests,            \* the steps appended to the chain, in append order
    engineCalls,         \* the tex2svg calls made so far
    tasks,               \* the renderDocument / retryBlock calls made so far
    lastPass,            \* the last pass that ended with nothing interfering since it began
    themeKind,           \* vscode.window.activeColorTheme.kind
    clock,               \* the time, in ms
    timers,              \* the setTimeout timers that are set and have not fired
    debounceTimer,       \* extension.ts: debounceTimer of the document-change handler
    watchTimer,          \* DocumentParser.watchDocument: debounceTimer
    eventLog,            \* the change events delivered and the callbacks run, in order
    bgRenderScheduled,   \* extension.ts: bgRenderScheduled
    bgTimers,            \* the timers set by scheduleBackgroundRender that have not fired
    bgRenders,           \* the renderDocument calls made by those timers' callbacks
    fenceOut,            \* what the last call of the fence rule did and returned
    cacheVersion,        \* globalState's 'tikzjax.cacheVersion' (<<>> when not stored)
    activation,          \* the position of activate's version check and clear
    twins,               \* per request, Twin of its fingerprint when it was appended
                         \* (kept by SpecTwin only)
    command,             \* the position of the command handler that is running
    config,              \* PreviewManager._config
    loop,                \* the Markdown document in the editor and its preview
    text                 \* a Markdown text, what parse and the fence rule made of it

cacheVars == <<globalState, lastCall, live>>
previewVars == <<svgCache, isRendering, tikzjaxLoaded, tikzjaxLoadPromise, loads,
                 renderChain, requests, engineCalls, tasks, lastPass, themeKind>>
fenceVars == <<bgRenderScheduled, bgTimers, bgRenders, fenceOut>>
activationVars == <<cacheVersion, activation>>
timerVars == <<clock, timers, debounceTimer, watchTimer, eventLog>>
handlerVars == <<command, config, loop, text>>
extVars == <<timerVars, fenceVars, activationVars, twins, handlerVars>>
vars == <<globalState, lastCall, live, svgCache, isRendering, tikzjaxLoaded,
          tikzjaxLoadPromise, loads, renderChain, requests, engineCalls, tasks,
          lastPass, themeKind, clock, timers, debounceTimer, watchTimer, eventLog,
          bgRenderScheduled, bgTimers, bgRenders, fenceOut, cacheVersion, activation,
          twins, command, config, loop, text>>

\* no text opened
NoText == [pc |-> "closed", lines |-> <<>>, blocks |-> <<>>, ranges |-> <<>>, fences |-> <<>>,
           tex |-> <<>>, processed |-> <<>>]

NoCall == [op |-> "none", hash |-> <<>>, arg |-> <<>>, ret |-> <<>>,
           stats |-> <<>>, wasLive |-> FALSE]

\* the state after the PreviewManager and the CacheManager are constructed
PreviewInit ==
    /\ svgCache = [h \in Hashes |-> <<>>]
    /\ isRendering = FALSE
    /\ tikzjaxLoaded = FALSE
    /\ tikzjaxLoadPromise = 0
    /\ loads = <<>>
    /\ renderChain = 0
    /\ requests = <<>>
    /\ engineCalls = <<>>
    /\ tasks = <<>>
    /\ lastPass = <<>>
    /\ themeKind = "Dark"

CacheInit ==
    /\ globalState = EmptyGlobalState
    /\ lastCall = NoCall
    /\ live = {}

\* no call of the fence rule yet
NoFence == [html |-> "none", scheduled |-> FALSE]

\* if (cacheVersion < 2), update('tikzjax.cacheVersion', 2)
CurrentCacheVersion == 2

\* context.globalState.get<number>('tikzjax.cacheVersion', 0)
StoredVersion(version) == IF version = <<>> THEN 0 ELSE version[1]

\* activate in session n, up to the first await of cacheManager.clear: pc is
\* "clear" while clear is in its loop or about to remove the index key,
\* "version" when clear has returned and the version is not yet written,
\* "done" otherwise; index is the index clear read, startup the entries
\* stored when activate ran
Activate(gs, version, n) ==
    LET stale == StoredVersion(version) < CurrentCacheVersion IN
    [session |-> n,
     pc |-> IF stale THEN "clear" ELSE "done",
     index |-> IF stale THEN GetIndex(gs) ELSE <<>>,
     i |-> 1,
     startup |-> gs.cache,
     startVersion |-> StoredVersion(version)]

\* ConfigurationManager.getConfiguration with nothing set by the user
DefaultConfig == [invertColorsInDarkMode |-> TRUE]

\* a document opened in the editor with its preview: doc is its content,
\* edits the user's edits so far, refresh whether the preview is due to
\* render it, nudged whether the change events of the nudge in progress were
\* delivered
Opened == [doc |-> DocDup, edits |-> 0, refresh |-> TRUE, nudged |-> FALSE]

\* no command handler has run
NoCommand == [kind |-> "none", pc |-> "idle", doc |-> <<>>, blocks |-> <<>>,
              index |-> <<>>, i |-> 0, task |-> 0, n |-> 0,
              requestsAt |-> 0, callsAt |-> 0, passAt |-> FALSE, entriesAt |-> {}]

\* the extension after activate on a new installation, once the microtasks
\* activate queued have run: no timer set, nothing stored, clear has removed
\* the index key and awaits that update
ExtInit ==
    /\ clock = 0
    /\ timers = {}
    /\ debounceTimer = <<>>
    /\ watchTimer = <<>>
    /\ eventLog = <<>>
    /\ bgRenderScheduled = FALSE
    /\ bgTimers = 0
    /\ bgRenders = 0
    /\ fenceOut = NoFence
    /\ cacheVersion = <<>>
    /\ activation = [Activate(EmptyGlobalState, <<>>, 1) EXCEPT !.pc = "version"]
    /\ twins = <<>>
    /\ command = NoCommand
    /\ config = DefaultConfig
    /\ loop = Opened
    /\ text = NoText

\* ------------------------------------------- the CacheManager, call by call
\* entries a cache user may hand to set
InputEntries ==
    {CacheEntry(h, s, t, a) : h \in Hashes, s \in RawSvgs, t \in Times, a \in {0, 1}}

CallSet(h, e) ==
    /\ globalState' = CmSet(globalState, h, e)
    /\ lastCall' = [NoCall EXCEPT !.op = "set", !.hash = <<h>>, !.arg = <<e>>,
                                  !.wasLive = (h \in live)]
    /\ live' = live \cup {h}
    /\ UNCHANGED previewVars
    /\ UNCHANGED extVars

CallGet(h) ==
    /\ globalState.cache[h] # <<>> => globalState.cache[h][1].accessCount < MaxAccessCount
    /\ LET got == CmGet(globalState, h) IN
       /\ globalState' = got.gs
       /\ lastCall' = [NoCall EXCEPT !.op = "get", !.hash = <<h>>, !.ret = got.entry,
                                     !.wasLive = (h \in live)]
    /\ live' = live
    /\ UNCHANGED previewVars
    /\ UNCHANGED extVars

CallInvalidate(h) ==
    /\ globalState' = CmInvalidate(globalState, h)
    /\ lastCall' = [NoCall EXCEPT !.op = "invalidate", !.hash = <<h>>,
                                  !.wasLive = (h \in live)]
    /\ live' = live \ {h}
    /\ UNCHANGED previewVars
    /\ UNCHANGED extVars

CallClear ==
    /\ globalState' = CmClear(globalState)
    /\ lastCall' = [NoCall EXCEPT !.op = "clear", !.wasLive = (live # {})]
    /\ live' = {}
    /\ UNCHANGED previewVars
    /\ UNCHANGED extVars

CallGetStats ==
    /\ \A h \in Hashes :
          globalState.cache[h] # <<>> => globalState.cache[h][1].accessCount < MaxAccessCount
    /\ LET got == CmGetStats(globalState) IN
       /\ globalState' = got.gs
       /\ lastCall' = [NoCall EXCEPT !.op = "getStats", !.stats = <<got.stats>>]
    /\ live' = live
    /\ UNCHANGED previewVars
    /\ UNCHANGED extVars

CacheNext ==
    \/ \E h \in Hashes, e \in InputEntries : CallSet(h, e)
    \/ \E h \in Hashes : CallGet(h)
    \/ \E h \in Hashes : CallInvalidate(h)
    \/ CallClear
    \/ CallGetStats

\* ------------------------------------------------------- PreviewManager
\* _isDarkMode
IsDarkMode == themeKind \in {"Dark", "HighContrast"}

\* _applyPostProcessing
ApplyPostProcessing(svg, darkMode) == PostProcessSvg(svg, darkMode)

SvgResult(svg) == [svg |-> <<svg>>, error |-> <<>>]
ErrorResult(errorMsg) == [svg |-> <<>>, error |-> <<errorMsg>>]

\* what can be thrown inside a chain step: texError is the text the pattern
\* /!(.*?)(?:\n|$)/ captures from the message, trimmed (<<>> when no match)
EngineError == [message |-> "! Undefined control sequence",
                texError |-> <<"Undefined control sequence">>, timedOut |-> FALSE]
LoadError == [message |-> "Cannot find module 'node-tikzjax'",
              texError |-> <<>>, timedOut |-> FALSE]
\* new Error(`Render timed out after ${timeout}ms`)
TimeoutError == [message |-> "Render timed out after 15000ms",
                 texError |-> <<>>, timedOut |-> TRUE]

\* an _extractTexError with no case for 'timed out'
ExtractTexErrorGeneric(err) ==
    IF err.texError # <<>>
    THEN [prefix |-> "TeX compilation failed: ", detail |-> err.texError[1]]
    ELSE [prefix |-> "TeX compilation failed. Check your LaTeX syntax.\n",
          detail |-> err.message]
\* _extractTexError: the message as the text put before the detail
ExtractTexError(err) ==
    IF err.texError # <<>>
    THEN [prefix |-> "TeX compilation failed: ", detail |-> err.texError[1]]
    ELSE IF err.timedOut
         THEN [prefix |-> "", detail |-> err.message]
         ELSE [prefix |-> "TeX compilation failed. Check your LaTeX syntax.\n",
               detail |-> err.message]

\* a presence test that counts svg results only
SvgCacheHasSvg(cache, hash) == cache[hash] # <<>> /\ cache[hash][1].svg # <<>>
\* a presence test that never finds a block
SvgCacheHasNever(cache, hash) == FALSE
\* this._svgCache.has(hash)
SvgCacheHas(cache, hash) == cache[hash] # <<>>

\* a renderDocument with no re-entrancy guard
ReentrancyGuardOff(flag) == FALSE
\* renderDocument: if (this._isRendering) return
ReentrancyGuard(flag) == flag

\* a step started at once, not chained after the tail
ChainPredNone(tail) == 0
\* _renderSingleBlock: the promise the new step is chained on, this._renderChain
ChainPred(tail) == tail

\* the state of promise p of the chain
PromiseStatus(p) == IF p = 0 THEN "fulfilled" ELSE requests[p].status

\* a caller that awaits the promise its step was chained on
AwaitedPred(r) == requests[r].pred
\* _renderSingleBlock: the promise that await this._renderChain waits for in
\* the call that appended step r: the one just assigned, of step r
Awaited(r) == r

\* a catch block that throws again
StepCatchRethrows == "rejected"
\* how the promise of a step settles when its catch block has run
StepCatchSettles == "fulfilled"

\* a catch block that also writes the error to globalState
StepCatchPersist(caches, hash, err) ==
    [svgCache |-> [caches.svgCache EXCEPT ![hash] = <<ErrorResult(ExtractTexError(err))>>],
     globalState |-> CmSet(caches.globalState, hash,
                           CacheEntry(hash, [body |-> err.message, optimized |-> FALSE,
                                             dark |-> FALSE], 1, 0))]
\* a catch block that stores nothing
StepCatchForgets(caches, hash, err) == caches
\* the catch block of a chain step, on the two caches
StepCatch(caches, hash, err) ==
    [caches EXCEPT !.svgCache[hash] = <<ErrorResult(ExtractTexError(err))>>]

\* ---- tasks: one record per renderDocument / retryBlock call
\* clean: no retryBlock, clearMemoryCache or resetEngine call since the pass
\* began; alone: clean, and no call was in flight when it began; second: the
\* pass began when the last call to end was a clean pass over the same blocks
\* (first), with nothing interfering since; cold: the fingerprints in neither
\* cache when the pass began
\* pc: "get" awaits cacheManager.get, "invalidate" awaits
\* cacheManager.invalidate, "render" awaits
\* _renderSingleBlock, "nudge" awaits _nudgeDocument
NoTask == [kind |-> "render", pc |-> "done", blocks |-> <<>>, i |-> 0,
           cached |-> <<>>, request |-> 0, log |-> <<>>,
           dropped |-> FALSE, overlapped |-> FALSE,
           clean |-> TRUE, alone |-> TRUE, second |-> FALSE, first |-> 0, cold |-> {}]

\* what a pass did for one block: inMemory is whether the fingerprint was in
\* the memory cache when the block was reached
LogEntry(hash, inMemory, read) ==
    [hash |-> hash, inMemory |-> inMemory, read |-> read, request |-> 0,
     nudged |-> FALSE, result |-> <<>>]

InFlight(t) == tasks[t].pc \notin {"done", "threw"}
PassInFlight(t) == tasks[t].kind = "render" /\ InFlight(t)

\* the for loop of renderDocument from block i up to its next await (the get
\* of the first block not in the memory cache) or its end
RECURSIVE PassAdvanceIn(_, _, _, _)
PassAdvanceIn(cache, task, i, gs) ==
    IF i > Len(task.blocks)
    THEN [task |-> [task EXCEPT !.pc = "done", !.i = i], gs |-> gs]
    ELSE LET hash == task.blocks[i].hash IN
         IF SvgCacheHas(cache, hash)
         THEN PassAdvanceIn(cache,
                [task EXCEPT !.log = Append(@,
                    [LogEntry(hash, cache[hash] # <<>>, FALSE)
                        EXCEPT !.result = cache[hash]])],
                i + 1, gs)
         ELSE LET got == CmGet(gs, hash) IN
              [task |-> [task EXCEPT !.pc = "get", !.i = i, !.cached = got.entry,
                            !.log = Append(@, LogEntry(hash, cache[hash] # <<>>, TRUE))],
               gs |-> got.gs]

\* the same loop over the memory cache as it is
PassAdvance(task, i, gs) == PassAdvanceIn(svgCache, task, i, gs)

\* a call or event that removes results from the memory cache interferes
\* with the passes in flight
Interfered(ts) ==
    [t \in 1..Len(ts) |->
        IF ts[t].pc \in {"done", "threw"} THEN ts[t]
        ELSE [ts[t] EXCEPT !.clean = FALSE, !.alone = FALSE, !.second = FALSE]]

SetLog(task, field, value) ==
    [task EXCEPT !.log[Len(task.log)] = [@ EXCEPT ![field] = value]]

\* the end of a pass: finally { this._isRendering = false }
PassEnds(t, task) ==
    /\ isRendering' = (task.pc # "done" /\ isRendering)
    /\ lastPass' = IF task.pc = "done"
                   THEN (IF task.clean THEN <<t>> ELSE <<>>)
                   ELSE lastPass

LoadStatus(r) == loads[requests[r].load]

\* a continuation is queued as a microtask: the await of a get that returned
\* undefined, a step whose predecessor has settled, a step whose load has
\* settled, a caller whose step has settled, activate's clear after its
\* await of getIndex, a command handler whose renderDocument has returned.  The event loop drains the microtasks before it
\* delivers the next event, timer or I/O completion.
MicrotaskPending ==
    \/ activation.pc = "clear" /\ activation.i = 1
    \/ command.pc = "render" /\ tasks[command.task].pc \in {"done", "threw"}
    \/ \E t \in 1..Len(tasks) :
          \/ tasks[t].pc = "get" /\ tasks[t].cached = <<>>
          \/ tasks[t].pc = "render"
             /\ PromiseStatus(Awaited(tasks[t].request)) \in {"fulfilled", "rejected"}
    \/ \E r \in 1..Len(requests) :
          \/ requests[r].status = "pending"
             /\ PromiseStatus(requests[r].pred) \in {"fulfilled", "rejected"}
          \/ requests[r].status = "running" /\ requests[r].phase = "load"
             /\ LoadStatus(r) # "pending"

\* renderDocument(document), up to its first await, called when the memory
\* cache is cache, the calls made so far are ts and the last undisturbed pass
\* is last; it leaves the memory cache as it found it
RenderDocumentIn(document, cache, ts, last) ==
    /\ LET t == Len(ts) + 1
           overlapped == \E u \in 1..Len(ts) : ts[u].kind = "render"
                                                /\ ts[u].pc \notin {"done", "threw"}
           blocks == Parse(document)
       IN
       IF ReentrancyGuard(isRendering)
       THEN /\ tasks' = Append(ts, [NoTask EXCEPT !.blocks = blocks, !.dropped = TRUE,
                                                  !.overlapped = overlapped])
            /\ lastPass' = last
            /\ UNCHANGED <<globalState, isRendering>>
       ELSE IF Len(blocks) = 0
       THEN /\ tasks' = Append(ts, [NoTask EXCEPT !.overlapped = overlapped])
            /\ lastPass' = last
            /\ UNCHANGED <<globalState, isRendering>>
       ELSE LET second == last # <<>> /\ ts[last[1]].blocks = blocks
                start == [NoTask EXCEPT
                            !.blocks = blocks, !.overlapped = overlapped,
                            !.second = second,
                            !.alone = \A u \in 1..Len(ts) :
                                         ts[u].pc \in {"done", "threw"},
                            !.first = IF second THEN last[1] ELSE 0,
                            !.cold = {h \in Hashes : cache[h] = <<>>
                                                     /\ globalState.cache[h] = <<>>}]
            IN
            \E adv \in {PassAdvanceIn(cache, start, 1, globalState)} :
            /\ tasks' = Append(ts, adv.task)
            /\ globalState' = adv.gs
            /\ isRendering' = (adv.task.pc # "done")
            /\ lastPass' = IF adv.task.pc = "done" THEN <<t>> ELSE <<>>
    /\ UNCHANGED <<lastCall, live, tikzjaxLoaded, tikzjaxLoadPromise, loads,
                   renderChain, requests, engineCalls>>

\* renderDocument(document), up to its first await
RenderDocumentCall(document) ==
    /\ ~MicrotaskPending
    /\ Len(tasks) < MaxTasks
    /\ RenderDocumentIn(document, svgCache, tasks, lastPass)
    /\ UNCHANGED <<svgCache, themeKind>>

\* a renderDocument call by one of the extension's handlers
RenderDocument(document) ==
    /\ RenderDocumentCall(document)
    /\ UNCHANGED extVars

\* the requests for a fingerprint that have been appended and have not ended
Unsettled(hash) ==
    {r \in 1..Len(requests) :
        requests[r].hash = hash /\ requests[r].status \in {"pending", "running"}}

\* the last request for the same fingerprint that has not ended when one is
\* appended (0 when there is none)
Twin(hash) ==
    IF Unsettled(hash) = {} THEN 0
    ELSE CHOOSE r \in Unsettled(hash) : \A q \in Unsettled(hash) : q <= r

NewRequest(t, hash, source) ==
    [task |-> t, hash |-> hash, source |-> source, pred |-> ChainPred(renderChain),
     status |-> "pending", phase |-> "none", load |-> 0, call |-> 0,
     outcome |-> "none", persisted |-> FALSE, result |-> <<>>]

\* _renderSingleBlock(hash, source) up to its await: the step is chained on
\* the tail, and becomes the tail
AppendRequest(t, hash, source) ==
    /\ requests' = Append(requests, NewRequest(t, hash, source))
    /\ renderChain' = Len(requests) + 1

\* renderDocument: cacheManager.get returned an entry
PersistentHit(t) ==
    /\ ~MicrotaskPending
    /\ tasks[t].kind = "render" /\ tasks[t].pc = "get"
    /\ tasks[t].cached # <<>>
    /\ LET hash == tasks[t].blocks[tasks[t].i].hash
           processed == ApplyPostProcessing(tasks[t].cached[1].svg, IsDarkMode)
       IN
       /\ svgCache' = [svgCache EXCEPT ![hash] = <<SvgResult(processed)>>]
       /\ tasks' = [tasks EXCEPT ![t] =
                      SetLog(SetLog([@ EXCEPT !.pc = "nudge", !.cached = <<>>],
                                    "result", <<SvgResult(processed)>>),
                             "nudged", TRUE)]
    /\ UNCHANGED <<globalState, lastCall, live, isRendering, tikzjaxLoaded,
                   tikzjaxLoadPromise, loads, renderChain, requests, engineCalls,
                   lastPass, themeKind>>
    /\ UNCHANGED extVars

\* renderDocument: cacheManager.get returned undefined
PersistentMissCall(t) ==
    /\ tasks[t].kind = "render" /\ tasks[t].pc = "get"
    /\ tasks[t].cached = <<>>
    /\ LET block == tasks[t].blocks[tasks[t].i] IN
       /\ AppendRequest(t, block.hash, block.source)
       /\ tasks' = [tasks EXCEPT ![t] =
                      SetLog([@ EXCEPT !.pc = "render", !.request = Len(requests) + 1],
                             "request", Len(requests) + 1)]
    /\ UNCHANGED <<globalState, lastCall, live, svgCache, isRendering, tikzjaxLoaded,
                   tikzjaxLoadPromise, loads, engineCalls, lastPass, themeKind>>

PersistentMiss(t) ==
    /\ PersistentMissCall(t)
    /\ UNCHANGED extVars

\* a retryBlock that leaves the memory cache as it is
RetryEvictNothing(cache, hash) == cache
\* retryBlock: this._svgCache.delete(hash)
RetryEvict(cache, hash) == [cache EXCEPT ![hash] = <<>>]

\* retryBlock(hash, source, document), up to the await inside invalidate
RetryBlock(source) ==
    /\ ~MicrotaskPending
    /\ Len(tasks) < MaxTasks
    /\ LET block == TikzBlock(source) IN
       /\ svgCache' = RetryEvict(svgCache, block.hash)
       /\ globalState' = CmInvalidateEntry(globalState, block.hash)
       /\ tasks' = Append(Interfered(tasks),
                          [NoTask EXCEPT !.kind = "retry", !.pc = "invalidate",
                                         !.blocks = <<block>>, !.i = 1,
                                         !.log = <<LogEntry(block.hash, FALSE, FALSE)>>])
    /\ lastPass' = <<>>
    /\ UNCHANGED <<lastCall, live, isRendering, tikzjaxLoaded, tikzjaxLoadPromise, loads,
                   renderChain, requests, engineCalls, themeKind>>
    /\ UNCHANGED extVars

\* retryBlock: invalidate goes on to removeFromIndex and returns, and
\* _renderSingleBlock is called
RetryRenderCall(t) ==
    /\ ~MicrotaskPending
    /\ tasks[t].kind = "retry" /\ tasks[t].pc = "invalidate"
    /\ globalState' = RemoveFromIndex(globalState, tasks[t].blocks[1].hash)
    /\ AppendRequest(t, tasks[t].blocks[1].hash, tasks[t].blocks[1].source)
    /\ tasks' = [tasks EXCEPT ![t] =
                   SetLog([@ EXCEPT !.pc = "render", !.request = Len(requests) + 1],
                          "request", Len(requests) + 1)]
    /\ UNCHANGED <<lastCall, live, svgCache, isRendering, tikzjaxLoaded,
                   tikzjaxLoadPromise, loads, engineCalls, lastPass, themeKind>>

RetryRender(t) ==
    /\ RetryRenderCall(t)
    /\ UNCHANGED extVars

\* await this._renderChain returns (or throws) in the caller of
\* _renderSingleBlock, which goes on to _nudgeDocument
RenderReturns(t) ==
    /\ tasks[t].pc = "render"
    /\ PromiseStatus(Awaited(tasks[t].request)) \in {"fulfilled", "rejected"}
    /\ LET threw == PromiseStatus(Awaited(tasks[t].request)) = "rejected"
           hash == tasks[t].blocks[tasks[t].i].hash
           after == IF threw
                    THEN [tasks[t] EXCEPT !.pc = "threw"]
                    ELSE SetLog(SetLog([tasks[t] EXCEPT !.pc = "nudge"],
                                       "result", svgCache[hash]),
                                "nudged", TRUE)
       IN
       /\ tasks' = [tasks EXCEPT ![t] = after]
       /\ isRendering' = IF threw /\ tasks[t].kind = "render" THEN FALSE ELSE isRendering
    /\ UNCHANGED <<globalState, lastCall, live, svgCache, tikzjaxLoaded,
                   tikzjaxLoadPromise, loads, renderChain, requests, engineCalls,
                   lastPass, themeKind>>
    /\ UNCHANGED extVars

\* a loop that leaves out every other block
NextBlockSkips(i) == i + 2
\* for (const block of blocks): the block after block i
NextBlock(i) == i + 1

\* _nudgeDocument returned: renderDocument goes on with the next block,
\* retryBlock returns
NudgeReturnsCall(t) ==
    /\ ~MicrotaskPending
    /\ tasks[t].pc = "nudge"
    /\ IF tasks[t].kind = "retry"
       THEN /\ tasks' = [tasks EXCEPT ![t].pc = "done"]
            /\ UNCHANGED <<globalState, isRendering, lastPass>>
       ELSE \E adv \in {PassAdvance(tasks[t], NextBlock(tasks[t].i), globalState)} :
            /\ tasks' = [tasks EXCEPT ![t] = adv.task]
            /\ globalState' = adv.gs
            /\ PassEnds(t, adv.task)
    /\ UNCHANGED <<lastCall, live, svgCache, tikzjaxLoaded, tikzjaxLoadPromise, loads,
                   renderChain, requests, engineCalls, themeKind>>

NudgeReturns(t) ==
    /\ NudgeReturnsCall(t)
    /\ UNCHANGED extVars

\* ---- the chain steps
\* a call of tex2svg by step r
NewCall(r) == [request |-> r, hash |-> requests[r].hash, status |-> "running", svg |-> <<>>]

Running(r, phase) == requests[r].status = "running" /\ requests[r].phase = phase

\* the step's try block threw err: its catch block runs and the step settles
StepFails(r, err, outcome) ==
    LET caches == StepCatch([svgCache |-> svgCache, globalState |-> globalState],
                            requests[r].hash, err)
    IN
    /\ svgCache' = caches.svgCache
    /\ globalState' = caches.globalState
    /\ requests' = [requests EXCEPT ![r] =
                      [@ EXCEPT !.status = StepCatchSettles, !.phase = "none",
                                !.outcome = outcome,
                                !.persisted = (caches.globalState # globalState),
                                !.result = caches.svgCache[requests[r].hash]]]

\* a test of the memoized load that never finds one
LoadMemoizedNever(promise) == FALSE
\* _ensureTikzjaxLoaded: if (this._tikzjaxLoadPromise)
LoadMemoized(promise) == promise # 0

\* the promise the step is chained on has settled: the step runs up to its
\* first await that waits: of the load of node-tikzjax when it is not loaded
\* (_ensureTikzjaxLoaded starts the load, or returns the one in flight), of
\* the race of tex2svg against the timer when it is.  A step chained on a
\* rejected promise does not run, and its promise rejects.
StepStarts(r) ==
    /\ requests[r].status = "pending"
    /\ PromiseStatus(requests[r].pred) \in {"fulfilled", "rejected"}
    /\ IF PromiseStatus(requests[r].pred) = "rejected"
       THEN /\ requests' = [requests EXCEPT ![r].status = "rejected"]
            /\ UNCHANGED <<tikzjaxLoadPromise, loads, engineCalls>>
       ELSE IF tikzjaxLoaded
       THEN /\ engineCalls' = Append(engineCalls, NewCall(r))
            /\ requests' = [requests EXCEPT ![r].status = "running", ![r].phase = "race",
                                            ![r].call = Len(engineCalls) + 1]
            /\ UNCHANGED <<tikzjaxLoadPromise, loads>>
       ELSE IF LoadMemoized(tikzjaxLoadPromise)
       THEN /\ requests' = [requests EXCEPT ![r].status = "running", ![r].phase = "load",
                                            ![r].load = tikzjaxLoadPromise]
            /\ UNCHANGED <<tikzjaxLoadPromise, loads, engineCalls>>
       ELSE /\ loads' = Append(loads, "pending")
            /\ tikzjaxLoadPromise' = Len(loads) + 1
            /\ requests' = [requests EXCEPT ![r].status = "running", ![r].phase = "load",
                                            ![r].load = Len(loads) + 1]
            /\ UNCHANGED engineCalls
    /\ UNCHANGED <<globalState, lastCall, live, svgCache, isRendering, tikzjaxLoaded,
                   renderChain, tasks, lastPass, themeKind>>
    /\ UNCHANGED extVars

\* _ensureTikzjaxLoaded: import('node-tikzjax') resolved
LoadResolves(l) ==
    /\ ~MicrotaskPending
    /\ loads[l] = "pending"
    /\ loads' = [loads EXCEPT ![l] = "resolved"]
    /\ tikzjaxLoaded' = TRUE
    /\ UNCHANGED <<globalState, lastCall, live, svgCache, isRendering,
                   tikzjaxLoadPromise, renderChain, requests, engineCalls, tasks,
                   lastPass, themeKind>>
    /\ UNCHANGED extVars

\* _ensureTikzjaxLoaded: import('node-tikzjax') threw
LoadRejects(l) ==
    /\ ~MicrotaskPending
    /\ loads[l] = "pending"
    /\ loads' = [loads EXCEPT ![l] = "rejected"]
    /\ UNCHANGED <<globalState, lastCall, live, svgCache, isRendering, tikzjaxLoaded,
                   tikzjaxLoadPromise, renderChain, requests, engineCalls, tasks,
                   lastPass, themeKind>>
    /\ UNCHANGED extVars

\* _renderTikzToSvg: the awaited load resolved, tex2svg is called and raced
\* against the timer
StepInvokes(r) ==
    /\ Running(r, "load")
    /\ LoadStatus(r) = "resolved"
    /\ engineCalls' = Append(engineCalls, NewCall(r))
    /\ requests' = [requests EXCEPT ![r].phase = "race", ![r].call = Len(engineCalls) + 1]
    /\ UNCHANGED <<globalState, lastCall, live, svgCache, isRendering, tikzjaxLoaded,
                   tikzjaxLoadPromise, loads, renderChain, tasks, lastPass, themeKind>>
    /\ UNCHANGED extVars

\* _renderTikzToSvg: the awaited load rejected
StepLoadFailed(r) ==
    /\ Running(r, "load")
    /\ LoadStatus(r) = "rejected"
    /\ StepFails(r, LoadError, "loadError")
    /\ UNCHANGED <<lastCall, live, isRendering, tikzjaxLoaded, tikzjaxLoadPromise, loads,
                   renderChain, engineCalls, tasks, lastPass, themeKind>>
    /\ UNCHANGED extVars

\* Date.now() when a step builds its CacheEntry: a clock that has ticked once
\* per tex2svg call
Now == Len(engineCalls)

\* a step that persists what it put in the memory cache
PersistedArtifactProcessed(svg, processed) == processed
\* new CacheEntry(hash, svg): the artifact a step persists is tex2svg's output
PersistedArtifact(svg, processed) == svg

\* tex2svg resolved first: the step stores the result and calls
\* cacheManager.set, which runs up to its first await
EngineResolves(r) ==
    /\ ~MicrotaskPending
    /\ Running(r, "race")
    /\ engineCalls[requests[r].call].status = "running"
    /\ LET hash == requests[r].hash
           svg == Tex2Svg(requests[r].source)
           now == Now
           processed == ApplyPostProcessing(svg, IsDarkMode)
       IN
       /\ engineCalls' = [engineCalls EXCEPT ![requests[r].call] =
                            [@ EXCEPT !.status = "resolved", !.svg = <<svg>>]]
       /\ svgCache' = [svgCache EXCEPT ![hash] = <<SvgResult(processed)>>]
       /\ globalState' = CmSetEntry(globalState, hash,
                                     CacheEntry(hash, PersistedArtifact(svg, processed), now, 0))
       /\ requests' = [requests EXCEPT ![r] =
                         [@ EXCEPT !.phase = "set", !.persisted = TRUE,
                                   !.result = <<SvgResult(processed)>>]]
    /\ UNCHANGED <<lastCall, live, isRendering, tikzjaxLoaded, tikzjaxLoadPromise, loads,
                   renderChain, tasks, lastPass, themeKind>>
    /\ UNCHANGED extVars

\* cacheManager.set goes on to addToIndex and returns: the step is done
StepSetReturns(r) ==
    /\ ~MicrotaskPending
    /\ Running(r, "set")
    /\ globalState' = AddToIndex(globalState, requests[r].hash)
    /\ requests' = [requests EXCEPT ![r] =
                      [@ EXCEPT !.status = "fulfilled", !.phase = "none", !.outcome = "ok"]]
    /\ UNCHANGED <<lastCall, live, svgCache, isRendering, tikzjaxLoaded,
                   tikzjaxLoadPromise, loads, renderChain, engineCalls, tasks, lastPass,
                   themeKind>>
    /\ UNCHANGED extVars

\* tex2svg threw first
EngineRejects(r) ==
    /\ ~MicrotaskPending
    /\ Running(r, "race")
    /\ engineCalls[requests[r].call].status = "running"
    /\ engineCalls' = [engineCalls EXCEPT ![requests[r].call].status = "rejected"]
    /\ StepFails(r, EngineError, "engineError")
    /\ UNCHANGED <<lastCall, live, isRendering, tikzjaxLoaded, tikzjaxLoadPromise, loads,
                   renderChain, tasks, lastPass, themeKind>>
    /\ UNCHANGED extVars

\* the timer fired first: the race rejects, the tex2svg call goes on
TimerFires(r) ==
    /\ ~MicrotaskPending
    /\ Running(r, "race")
    /\ engineCalls[requests[r].call].status = "running"
    /\ StepFails(r, TimeoutError, "timeout")
    /\ UNCHANGED <<lastCall, live, isRendering, tikzjaxLoaded, tikzjaxLoadPromise, loads,
                   renderChain, engineCalls, tasks, lastPass, themeKind>>
    /\ UNCHANGED extVars

\* a race whose loser, when it settles, stores its svg in the memory cache
RaceLoserStores(caches, r) ==
    [caches EXCEPT !.svgCache[requests[r].hash] =
        <<SvgResult(ApplyPostProcessing(Tex2Svg(requests[r].source), IsDarkMode))>>]
\* Promise.race([svgPromise, timeoutPromise]) has settled with the timer's
\* rejection: the settlement of svgPromise has no continuation in the step
RaceLoser(caches, r) == caches

\* a tex2svg call whose race the timer won settles: nobody awaits it
AbandonedCallSettles(c) ==
    /\ ~MicrotaskPending
    /\ engineCalls[c].status = "running"
    /\ requests[engineCalls[c].request].call # c
       \/ ~Running(engineCalls[c].request, "race")
    /\ engineCalls' = [engineCalls EXCEPT ![c].status = "settled"]
    /\ \E caches \in {RaceLoser([svgCache |-> svgCache, globalState |-> globalState],
                                engineCalls[c].request)} :
          /\ svgCache' = caches.svgCache
          /\ globalState' = caches.globalState
    /\ UNCHANGED <<lastCall, live, isRendering, tikzjaxLoaded,
                   tikzjaxLoadPromise, loads, renderChain, requests, tasks, lastPass,
                   themeKind>>
    /\ UNCHANGED extVars

\* clearMemoryCache() (Spec has the behaviours with no clear and no reset;
\* SpecEngine those with resets)
ClearMemoryCache ==
    /\ ~MicrotaskPending
    /\ svgCache' = [h \in Hashes |-> <<>>]
    /\ tasks' = Interfered(tasks)
    /\ lastPass' = <<>>
    /\ UNCHANGED <<globalState, lastCall, live, isRendering, tikzjaxLoaded,
                   tikzjaxLoadPromise, loads, renderChain, requests, engineCalls,
                   themeKind>>
    /\ UNCHANGED extVars

\* resetEngine()
ResetEngineCall ==
    /\ ~MicrotaskPending
    /\ tikzjaxLoaded' = FALSE
    /\ tikzjaxLoadPromise' = 0
    /\ svgCache' = [h \in Hashes |-> <<>>]
    /\ tasks' = Interfered(tasks)
    /\ lastPass' = <<>>
    /\ UNCHANGED <<globalState, lastCall, live, isRendering, loads, renderChain,
                   requests, engineCalls, themeKind>>

ResetEngine ==
    /\ ResetEngineCall
    /\ UNCHANGED extVars

Init == CacheInit /\ PreviewInit /\ ExtInit

\* the steps of the calls in flight that append no request to the chain,
\* but the return of a nudge
RequestSteps ==
    \/ \E t \in 1..Len(tasks) :
          \/ PersistentHit(t)
          \/ RenderReturns(t)
    \/ \E r \in 1..Len(requests) :
          \/ StepStarts(r)
          \/ StepInvokes(r)
          \/ StepLoadFailed(r)
          \/ EngineResolves(r)
          \/ StepSetReturns(r)
          \/ EngineRejects(r)
          \/ TimerFires(r)
    \/ \E l \in 1..Len(loads) : LoadResolves(l) \/ LoadRejects(l)
    \/ \E c \in 1..Len(engineCalls) : AbandonedCallSettles(c)

\* those steps and the return of a nudge
ChainSteps ==
    \/ \E t \in 1..Len(tasks) : NudgeReturns(t)
    \/ RequestSteps

\* the calls, and the steps that append no request to the chain
NextSteps ==
    \/ \E d \in Docs : RenderDocument(d)
    \/ \E s \in RetrySources : RetryBlock(s)
    \/ ChainSteps

Next ==
    \/ NextSteps
    \/ \E t \in 1..Len(tasks) : PersistentMiss(t) \/ RetryRender(t)

Spec == Init /\ [][Next]_vars

\* the same steps, with a record of the requests appended while a request
\* for the same fingerprint had not ended
PersistentMissTwin(t) ==
    /\ PersistentMissCall(t)
    /\ twins' = Append(twins, Twin(tasks[t].blocks[tasks[t].i].hash))
    /\ UNCHANGED <<timerVars, fenceVars, activationVars, handlerVars>>

RetryRenderTwin(t) ==
    /\ RetryRenderCall(t)
    /\ twins' = Append(twins, Twin(tasks[t].blocks[1].hash))
    /\ UNCHANGED <<timerVars, fenceVars, activationVars, handlerVars>>

NextTwin ==
    \/ NextSteps
    \/ \E t \in 1..Len(tasks) : PersistentMissTwin(t) \/ RetryRenderTwin(t)

SpecTwin == Init /\ [][NextTwin]_vars

\* the PreviewManager with the tikzjax.resetEngine command
NextEngine == Next \/ ResetEngine

SpecEngine == Init /\ [][NextEngine]_vars

\* the CacheManager driven by a user that awaits each call before the next
SpecCache == Init /\ [][CacheNext]_vars

\* ------------------------------------------- document-change debouncing
\* setTimeout(..., 1000) in the extension's onDidChangeTextDocument handler
RenderDebounceMs == 1000
\* setTimeout(..., 500) in DocumentParser.watchDocument
ParseDebounceMs == 500
\* the step of the clock
TickMs == ParseDebounceMs \div 2
\* ticks of the clock in one behaviour
MaxTicks == 10
\* change events in one behaviour
MaxChanges == 3

\* open documents; watchDocument watches WatchedDoc
EditorDocs == {"a.md", "b.md", "c.txt"}
LanguageId(doc) == IF doc = "c.txt" THEN "plaintext" ELSE "markdown"
WatchedDoc == "a.md"

\* setTimeout(callback, delay): the timer, with the event.document its
\* callback closes over
SetTimeout(owner, delay, doc) == [owner |-> owner, due |-> clock + delay, doc |-> doc]

\* a handler that does not clear the timer it had set
ClearTimeoutNoop(ts, handle) == ts
\* if (debounceTimer) { clearTimeout(debounceTimer); }
ClearTimeout(ts, handle) == {t \in ts : <<t>> # handle}

LogEvent(kind, doc) == [kind |-> kind, time |-> clock, doc |-> doc]

\* vscode.workspace.onDidChangeTextDocument fires for doc: the listener of the
\* extension and the listener of watchDocument run
ChangeEvent(doc) ==
    /\ Len(SelectSeq(eventLog, LAMBDA e : e.kind = "change")) < MaxChanges
    /\ LET render == SetTimeout("render", RenderDebounceMs, doc)
           parse == SetTimeout("parse", ParseDebounceMs, doc)
           afterRender == IF LanguageId(doc) # "markdown" THEN timers
                          ELSE ClearTimeout(timers, debounceTimer) \cup {render}
           afterParse == IF doc # WatchedDoc THEN afterRender
                         ELSE ClearTimeout(afterRender, watchTimer) \cup {parse}
       IN
       /\ timers' = afterParse
       /\ debounceTimer' = IF LanguageId(doc) # "markdown" THEN debounceTimer ELSE <<render>>
       /\ watchTimer' = IF doc # WatchedDoc THEN watchTimer ELSE <<parse>>
    /\ eventLog' = Append(eventLog, LogEvent("change", doc))
    /\ UNCHANGED <<clock, fenceVars, activationVars, twins, handlerVars, cacheVars, previewVars>>

\* the extension's timer fires: debounceTimer = undefined, and
\* previewManager.renderDocument(event.document) is called (the RenderDocument
\* step of Spec, which may be taken at any time)
DebounceFires(t) ==
    /\ t \in timers /\ t.owner = "render" /\ t.due <= clock
    /\ timers' = timers \ {t}
    /\ debounceTimer' = <<>>
    /\ eventLog' = Append(eventLog, LogEvent("render", t.doc))
    /\ UNCHANGED <<clock, watchTimer, fenceVars, activationVars, twins, handlerVars, cacheVars, previewVars>>

\* the timer of watchDocument fires: onChange(this.parse(event.document))
WatchFires(t) ==
    /\ t \in timers /\ t.owner = "parse" /\ t.due <= clock
    /\ timers' = timers \ {t}
    /\ eventLog' = Append(eventLog, LogEvent("parse", t.doc))
    /\ UNCHANGED <<clock, debounceTimer, watchTimer, fenceVars, activationVars, twins, handlerVars, cacheVars, previewVars>>

\* time passes, once the timers that are due have fired
Tick ==
    /\ clock < MaxTicks * TickMs
    /\ \A t \in timers : t.due > clock
    /\ clock' = clock + TickMs
    /\ UNCHANGED <<timers, debounceTimer, watchTimer, eventLog, fenceVars, activationVars, twins, handlerVars, cacheVars,
                   previewVars>>

NextDebounce ==
    \/ \E doc \in EditorDocs : ChangeEvent(doc)
    \/ \E t \in timers : DebounceFires(t)
    \/ \E t \in timers : WatchFires(t)
    \/ Tick

SpecDebounce == Init /\ [][NextDebounce]_vars

\* ------------------------------------------- the markdown-it fence rule
\* token.info of a fence, trimmed and lower-cased
FenceInfos == {"tikz", "js"}

\* if (bgRenderScheduled) { return; }
BgGuardOff(scheduled) == FALSE
BgGuard(scheduled) == scheduled

\* md.renderer.rules.fence for a token with this info and content
FenceRule(info, source) ==
    /\ ~MicrotaskPending
    /\ IF info # "tikz"
       THEN /\ fenceOut' = [html |-> "default", scheduled |-> FALSE]
            /\ UNCHANGED <<bgRenderScheduled, bgTimers>>
       ELSE LET result == svgCache[TikzHash(source)] IN
            IF result # <<>> /\ result[1].svg # <<>>
            THEN /\ fenceOut' = [html |-> "diagram", scheduled |-> FALSE]
                 /\ UNCHANGED <<bgRenderScheduled, bgTimers>>
            ELSE IF result # <<>> /\ result[1].error # <<>>
            THEN /\ fenceOut' = [html |-> "error", scheduled |-> FALSE]
                 /\ UNCHANGED <<bgRenderScheduled, bgTimers>>
            ELSE \* scheduleBackgroundRender()
                 IF BgGuard(bgRenderScheduled)
                 THEN /\ fenceOut' = [html |-> "placeholder", scheduled |-> FALSE]
                      /\ UNCHANGED <<bgRenderScheduled, bgTimers>>
                 ELSE /\ fenceOut' = [html |-> "placeholder", scheduled |-> TRUE]
                      /\ bgRenderScheduled' = TRUE
                      /\ bgTimers' = bgTimers + 1
    /\ UNCHANGED <<timerVars, bgRenders, activationVars, twins, handlerVars, cacheVars, previewVars>>

\* the callback of scheduleBackgroundRender's timer, up to its first await:
\* findMarkdownDocument() finds no document, or the callback calls
\* renderDocument for the one it finds
BgTimerFires ==
    /\ ~MicrotaskPending
    /\ bgTimers > 0
    /\ bgTimers' = bgTimers - 1
    /\ bgRenderScheduled' = FALSE
    /\ \/ /\ bgRenders' = bgRenders
          /\ UNCHANGED <<cacheVars, previewVars>>
       \/ /\ bgRenders' = bgRenders + 1
          /\ \E doc \in Docs : RenderDocumentCall(doc)
    /\ UNCHANGED <<timerVars, fenceOut, activationVars, twins, handlerVars>>

\* the built-in preview: its markdown-it rendering, the background renders,
\* and the passes the extension's handlers start (retryBlock, which does not
\* touch bgRenderScheduled or the timer, is left to Spec)
NextFence ==
    \/ \E d \in Docs : RenderDocument(d)
    \/ ChainSteps
    \/ \E t \in 1..Len(tasks) : PersistentMiss(t)
    \/ \E info \in FenceInfos, source \in Sources : FenceRule(info, source)
    \/ BgTimerFires

SpecFence == Init /\ [][NextFence]_vars

\* ------------------------------------------- activation and the cache version
\* sessions (activations of the extension on one globalState) in one behaviour
MaxSessions == 2

\* cacheManager.clear, called by activate, goes on after an await (of
\* getIndex, then of each update): it removes the next entry of the index it
\* read, or, after the last, the index key
ClearStep ==
    /\ activation.pc = "clear"
    /\ activation.i = 1 \/ ~MicrotaskPending
    /\ IF activation.i <= Len(activation.index)
       THEN /\ globalState' = CmInvalidateEntry(globalState, activation.index[activation.i])
            /\ activation' = [activation EXCEPT !.i = @ + 1]
       ELSE /\ globalState' = [globalState EXCEPT !.index = <<>>]
            /\ activation' = [activation EXCEPT !.pc = "version"]
    /\ UNCHANGED <<lastCall, live, cacheVersion, previewVars, timerVars, fenceVars, twins, handlerVars>>

\* clear's promise resolved: the then-callback of activate writes the version
VersionWritten ==
    /\ ~MicrotaskPending
    /\ activation.pc = "version"
    /\ cacheVersion' = <<CurrentCacheVersion>>
    /\ activation' = [activation EXCEPT !.pc = "done"]
    /\ UNCHANGED <<cacheVars, previewVars, timerVars, fenceVars, twins, handlerVars>>

\* the window is closed or reloaded and the extension is activated again:
\* what is in memory is lost, what was pending never runs, globalState is
\* kept, and activate runs on it.  The calls of the sessions before stay in
\* tasks as ended calls, so that MaxTasks bounds the calls of one behaviour.
Reload ==
    /\ ~MicrotaskPending
    /\ activation.session < MaxSessions
    /\ activation' = Activate(globalState, cacheVersion, activation.session + 1)
    /\ svgCache' = [h \in Hashes |-> <<>>]
    /\ isRendering' = FALSE
    /\ tikzjaxLoaded' = FALSE
    /\ tikzjaxLoadPromise' = 0
    /\ loads' = <<>>
    /\ renderChain' = 0
    /\ requests' = <<>>
    /\ engineCalls' = <<>>
    /\ tasks' = [t \in 1..Len(tasks) |-> NoTask]
    /\ lastPass' = <<>>
    /\ timers' = {}
    /\ debounceTimer' = <<>>
    /\ watchTimer' = <<>>
    /\ bgRenderScheduled' = FALSE
    /\ bgTimers' = 0
    /\ fenceOut' = NoFence
    /\ UNCHANGED <<cacheVars, cacheVersion, themeKind, clock, eventLog, bgRenders, twins, handlerVars>>

\* the extension over several sessions on one globalState
NextActivate ==
    \/ Next
    \/ ClearStep
    \/ VersionWritten
    \/ Reload

SpecActivate == Init /\ [][NextActivate]_vars

\* ------------------------------------------- the commands
\* the commands issued in one behaviour
MaxCommands == 1

\* a clear that removes nothing
KeptSvgCache == svgCache
EmptySvgCache == [h \in Hashes |-> <<>>]

\* the handler's record when a command is issued: how many requests and
\* engine calls had been made, whether a pass was in flight, which
\* fingerprints had an entry stored
Issued(kind) ==
    [NoCommand EXCEPT !.kind = kind, !.n = command.n + 1,
                      !.requestsAt = Len(requests), !.callsAt = Len(engineCalls),
                      !.passAt = isRendering,
                      !.entriesAt = {h \in Hashes : globalState.cache[h] # <<>>}]

CommandIdle == command.pc \in {"idle", "done", "threw"}

\* previewManager.clearMemoryCache(); await previewManager.renderDocument(doc),
\* up to the first await of renderDocument
ClearAndRenderCall(doc) ==
    /\ Len(tasks) < MaxTasks
    /\ svgCache' = EmptySvgCache
    /\ RenderDocumentIn(doc, EmptySvgCache, Interfered(tasks), <<>>)

ClearAndRender(doc) ==
    /\ ClearAndRenderCall(doc)
    /\ UNCHANGED themeKind

\* tikzjax.refreshDiagrams, up to the await inside the first invalidate
RefreshDiagrams(doc) ==
    /\ ~MicrotaskPending
    /\ CommandIdle /\ command.n < MaxCommands
    /\ LET c == [Issued("refresh") EXCEPT !.doc = <<doc>>, !.blocks = Parse(doc)] IN
       IF Len(c.blocks) = 0
       THEN /\ ClearAndRender(doc)
            /\ command' = [c EXCEPT !.pc = "render", !.task = Len(tasks) + 1]
       ELSE /\ globalState' = CmInvalidateEntry(globalState, c.blocks[1].hash)
            /\ command' = [c EXCEPT !.pc = "entry", !.i = 1]
            /\ UNCHANGED <<lastCall, live, previewVars>>
    /\ UNCHANGED <<timerVars, fenceVars, activationVars, twins, config, loop, text>>

\* invalidate goes on to removeFromIndex, up to its await
RefreshIndex ==
    /\ ~MicrotaskPending
    /\ command.kind = "refresh" /\ command.pc = "entry"
    /\ globalState' = RemoveFromIndex(globalState, command.blocks[command.i].hash)
    /\ command' = [command EXCEPT !.pc = "index"]
    /\ UNCHANGED <<lastCall, live, previewVars>>
    /\ UNCHANGED <<timerVars, fenceVars, activationVars, twins, config, loop, text>>

\* invalidate returns: the next block's invalidate, or after the last block
\* clearMemoryCache and renderDocument
RefreshNext ==
    /\ ~MicrotaskPending
    /\ command.kind = "refresh" /\ command.pc = "index"
    /\ IF command.i < Len(command.blocks)
       THEN /\ globalState' = CmInvalidateEntry(globalState,
                                                command.blocks[command.i + 1].hash)
            /\ command' = [command EXCEPT !.pc = "entry", !.i = @ + 1]
            /\ UNCHANGED <<lastCall, live, previewVars>>
       ELSE /\ ClearAndRender(command.doc[1])
            /\ command' = [command EXCEPT !.pc = "render", !.task = Len(tasks) + 1]
    /\ UNCHANGED <<timerVars, fenceVars, activationVars, twins, config, loop, text>>

\* the handler's await of renderDocument returns (or throws) and the handler
\* ends
CommandReturns ==
    /\ command.pc = "render"
    /\ tasks[command.task].pc \in {"done", "threw"}
    /\ command' = [command EXCEPT !.pc = tasks[command.task].pc]
    /\ UNCHANGED <<cacheVars, previewVars>>
    /\ UNCHANGED <<timerVars, fenceVars, activationVars, twins, config, loop, text>>

\* getStats from entry i of the index it read, up to the await inside the
\* get of the first entry that is stored
RECURSIVE StatsAdvance(_, _, _)
StatsAdvance(gs, index, i) ==
    IF i > Len(index)
    THEN [gs |-> gs, i |-> i]
    ELSE LET got == CmGet(gs, index[i]) IN
         IF got.entry = <<>>
         THEN StatsAdvance(gs, index, i + 1)
         ELSE [gs |-> got.gs, i |-> i]

\* clear, up to its first await: the index is read, and the first indexed
\* entry or (with an empty index) the index key is removed
ClearBegins(c, gs) ==
    LET index == GetIndex(gs) IN
    IF Len(index) = 0
    THEN [command |-> [c EXCEPT !.pc = "clearIndex", !.index = index, !.i = 1],
          gs |-> [gs EXCEPT !.index = <<>>]]
    ELSE [command |-> [c EXCEPT !.pc = "clear", !.index = index, !.i = 1],
          gs |-> CmInvalidateEntry(gs, index[1])]

\* the clearCache handler from entry i of getStats to its next await
StatsFrom(c, gs, i) ==
    LET adv == StatsAdvance(gs, c.index, i) IN
    IF adv.i <= Len(c.index)
    THEN [command |-> [c EXCEPT !.pc = "stats", !.i = adv.i], gs |-> adv.gs]
    ELSE ClearBegins(c, adv.gs)

\* tikzjax.clearCache, up to its first await
ClearCache ==
    /\ ~MicrotaskPending
    /\ CommandIdle /\ command.n < MaxCommands
    /\ LET next == StatsFrom([Issued("clear") EXCEPT !.index = GetIndex(globalState)],
                             globalState, 1)
       IN /\ command' = next.command
          /\ globalState' = next.gs
    /\ UNCHANGED <<lastCall, live, previewVars>>
    /\ UNCHANGED <<timerVars, fenceVars, activationVars, twins, config, loop, text>>

\* the update of a get of getStats has been written
ClearCacheStats ==
    /\ ~MicrotaskPending
    /\ command.kind = "clear" /\ command.pc = "stats"
    /\ LET next == StatsFrom(command, globalState, command.i + 1)
       IN /\ command' = next.command
          /\ globalState' = next.gs
    /\ UNCHANGED <<lastCall, live, previewVars>>
    /\ UNCHANGED <<timerVars, fenceVars, activationVars, twins, config, loop, text>>

\* an update of clear's loop has been written: the next indexed entry, or
\* after the last one the index key, is removed
ClearCacheEntry ==
    /\ ~MicrotaskPending
    /\ command.kind = "clear" /\ command.pc = "clear"
    /\ IF command.i < Len(command.index)
       THEN /\ globalState' = CmInvalidateEntry(globalState, command.index[command.i + 1])
            /\ command' = [command EXCEPT !.i = @ + 1]
       ELSE /\ globalState' = [globalState EXCEPT !.index = <<>>]
            /\ command' = [command EXCEPT !.pc = "clearIndex"]
    /\ UNCHANGED <<lastCall, live, previewVars>>
    /\ UNCHANGED <<timerVars, fenceVars, activationVars, twins, config, loop, text>>

\* clear returns: clearMemoryCache, then renderDocument on the document
\* findMarkdownDocument returns
ClearCacheRender(doc) ==
    /\ ~MicrotaskPending
    /\ command.kind = "clear" /\ command.pc = "clearIndex"
    /\ ClearAndRender(doc)
    /\ command' = [command EXCEPT !.pc = "render", !.task = Len(tasks) + 1,
                                  !.doc = <<doc>>, !.blocks = Parse(doc)]
    /\ UNCHANGED <<timerVars, fenceVars, activationVars, twins, config, loop, text>>

CommandSteps ==
    \/ \E doc \in Docs : RefreshDiagrams(doc) \/ ClearCacheRender(doc)
    \/ RefreshIndex
    \/ RefreshNext
    \/ ClearCache
    \/ ClearCacheStats
    \/ ClearCacheEntry
    \/ CommandReturns

\* the passes of the handlers and the two cache commands
NextCommands ==
    \/ \E doc \in Docs : RenderDocument(doc)
    \/ ChainSteps
    \/ \E t \in 1..Len(tasks) : PersistentMiss(t)
    \/ CommandSteps

SpecCommands == Init /\ [][NextCommands]_vars

\* tikzjax.resetEngine: resetEngine has no await, the handler ends with it
ResetEngineCommand ==
    /\ CommandIdle /\ command.n < MaxCommands
    /\ ResetEngineCall
    /\ command' = [Issued("reset") EXCEPT !.pc = "done"]
    /\ UNCHANGED <<timerVars, fenceVars, activationVars, twins, config, loop, text>>

\* the passes of the handlers and the resetEngine command
NextReset ==
    \/ \E doc \in Docs : RenderDocument(doc)
    \/ ChainSteps
    \/ \E t \in 1..Len(tasks) : PersistentMiss(t)
    \/ ResetEngineCommand

SpecReset == Init /\ [][NextReset]_vars

\* ------------------------------------------- theme and configuration
\* vscode.ColorThemeKind
ThemeKinds == {"Light", "Dark", "HighContrast", "HighContrastLight"}

\* onDidChangeActiveColorTheme: the theme is now kind, and the handler runs
\* clearMemoryCache and renderDocument on the document found
ThemeChange(kind, doc) ==
    /\ ~MicrotaskPending
    /\ kind # themeKind
    /\ themeKind' = kind
    /\ ClearAndRenderCall(doc)
    /\ UNCHANGED extVars

\* configManager.onConfigurationChange: previewManager.updateConfiguration
UpdateConfiguration(invert) ==
    /\ ~MicrotaskPending
    /\ invert # config.invertColorsInDarkMode
    /\ config' = [config EXCEPT !.invertColorsInDarkMode = invert]
    /\ UNCHANGED <<cacheVars, previewVars, timerVars, fenceVars, activationVars, twins,
                   command, loop, text>>

\* the passes with theme changes and changes of the setting
NextTheme ==
    \/ \E doc \in Docs : RenderDocument(doc)
    \/ ChainSteps
    \/ \E t \in 1..Len(tasks) : PersistentMiss(t)
    \/ \E kind \in ThemeKinds, doc \in Docs : ThemeChange(kind, doc)
    \/ \E invert \in BOOLEAN : UpdateConfiguration(invert)

SpecTheme == Init /\ [][NextTheme]_vars

\* ------------------------------------------- the nudge feedback loop
\* the user's edits in one behaviour
MaxEdits == 1
\* the renderDocument calls in one behaviour of the loop: each edit and each
\* nudge sets the debounce timer and makes the preview render once, and a
\* pass nudges at most once per fingerprint
MaxLoopTasks == 2 * MaxEdits + 2 * Cardinality(Hashes) + 1

\* the document the user edits and the preview shows
LoopDoc == "a.md"

\* onDidChangeTextDocument for the document: the debounce timer is set anew
\* (no time is kept here: a timer that is set fires at some later step)
LoopChangeEvent ==
    LET render == SetTimeout("render", RenderDebounceMs, LoopDoc) IN
    /\ timers' = ClearTimeout(timers, debounceTimer) \cup {render}
    /\ debounceTimer' = <<render>>

\* the user changes the document to content doc; the preview will render it
UserEdits(doc) ==
    /\ ~MicrotaskPending
    /\ loop.edits < MaxEdits
    /\ doc # loop.doc
    /\ loop' = [loop EXCEPT !.doc = doc, !.edits = @ + 1, !.refresh = TRUE]
    /\ LoopChangeEvent
    /\ UNCHANGED <<cacheVars, previewVars, clock, watchTimer, eventLog, fenceVars,
                   activationVars, twins, command, config, text>>

\* renderDocument on the document as it is now, by a timer's callback
RenderDocumentLoop ==
    /\ ~MicrotaskPending
    /\ Len(tasks) < MaxLoopTasks
    /\ RenderDocumentIn(loop.doc, svgCache, tasks, lastPass)
    /\ UNCHANGED <<svgCache, themeKind>>

\* the debounce timer fires: renderDocument(event.document)
LoopDebounceFires ==
    /\ \E t \in timers :
          /\ t.owner = "render"
          /\ timers' = timers \ {t}
    /\ debounceTimer' = <<>>
    /\ RenderDocumentLoop
    /\ UNCHANGED <<clock, watchTimer, eventLog, fenceVars, activationVars, twins,
                   handlerVars>>

\* one call of the fence rule for a tikz block, on bgRenderScheduled, the
\* timers set and the html returned
FenceCall(st, source) ==
    LET result == svgCache[TikzHash(source)] IN
    IF result # <<>> /\ result[1].svg # <<>>
    THEN [st EXCEPT !.out = [html |-> "diagram", scheduled |-> FALSE]]
    ELSE IF result # <<>> /\ result[1].error # <<>>
    THEN [st EXCEPT !.out = [html |-> "error", scheduled |-> FALSE]]
    ELSE IF BgGuard(st.scheduled)
    THEN [st EXCEPT !.out = [html |-> "placeholder", scheduled |-> FALSE]]
    ELSE [scheduled |-> TRUE, timers |-> st.timers + 1,
          out |-> [html |-> "placeholder", scheduled |-> TRUE]]

\* markdown-it renders the document: the fence rule is called block by block
RECURSIVE FenceCalls(_, _, _)
FenceCalls(st, doc, i) ==
    IF i > Len(doc) THEN st ELSE FenceCalls(FenceCall(st, doc[i]), doc, i + 1)

\* the preview renders the document
PreviewRenders ==
    /\ ~MicrotaskPending
    /\ loop.refresh
    /\ loop' = [loop EXCEPT !.refresh = FALSE]
    /\ LET st == FenceCalls([scheduled |-> bgRenderScheduled, timers |-> bgTimers,
                              out |-> fenceOut], loop.doc, 1)
       IN /\ bgRenderScheduled' = st.scheduled
          /\ bgTimers' = st.timers
          /\ fenceOut' = st.out
    /\ UNCHANGED <<cacheVars, previewVars, timerVars, bgRenders, activationVars, twins,
                   command, config, text>>

\* the timer of scheduleBackgroundRender fires: findMarkdownDocument returns
\* the document, and renderDocument is called
LoopBgTimerFires ==
    /\ bgTimers > 0
    /\ bgTimers' = bgTimers - 1
    /\ bgRenderScheduled' = FALSE
    /\ bgRenders' = bgRenders + 1
    /\ RenderDocumentLoop
    /\ UNCHANGED <<timerVars, fenceOut, activationVars, twins, handlerVars>>

\* _nudgeDocument has made its changes: with a visible editor the insert and
\* the undo are delivered as change events and the preview follows the
\* document; with none, markdown.preview.refresh makes the preview render
NudgeEvents(t, visible) ==
    /\ ~MicrotaskPending
    /\ tasks[t].pc = "nudge"
    /\ ~loop.nudged
    /\ loop' = [loop EXCEPT !.nudged = TRUE, !.refresh = TRUE]
    /\ IF visible
       THEN LoopChangeEvent
       ELSE UNCHANGED <<timers, debounceTimer>>
    /\ UNCHANGED <<cacheVars, previewVars, clock, watchTimer, eventLog, fenceVars,
                   activationVars, twins, command, config, text>>

\* _nudgeDocument returns
LoopNudgeReturns(t) ==
    /\ loop.nudged
    /\ NudgeReturnsCall(t)
    /\ loop' = [loop EXCEPT !.nudged = FALSE]
    /\ UNCHANGED <<timerVars, fenceVars, activationVars, twins, command, config, text>>

\* the steps of the extension and the preview
LoopProgram ==
    \/ LoopDebounceFires
    \/ PreviewRenders
    \/ LoopBgTimerFires
    \/ \E t \in 1..Len(tasks) : PersistentMiss(t)
    \/ \E t \in 1..Len(tasks), visible \in BOOLEAN : NudgeEvents(t, visible)
    \/ \E t \in 1..Len(tasks) : LoopNudgeReturns(t)
    \/ RequestSteps

NextLoop ==
    \/ \E doc \in Docs : UserEdits(doc)
    \/ LoopProgram

\* every callback that is queued runs, every timer that is set fires, every
\* storage update, load and engine call settles
SpecLoop == Init /\ [][NextLoop]_vars /\ WF_vars(LoopProgram)

\* ------------------------------------------------- passes that throw
\* a renderDocument without its finally block: the flag stays as it was
FinallySkipped(flag) == flag
\* renderDocument: finally { this._isRendering = false }
Finally(flag) == FALSE

\* renderDocument: the awaited cacheManager.get rejects (the update of the
\* touched entry failed); the exception leaves the loop through finally
GetThrows(t) ==
    /\ ~MicrotaskPending
    /\ tasks[t].kind = "render" /\ tasks[t].pc = "get"
    /\ tasks[t].cached # <<>>
    /\ tasks' = [tasks EXCEPT ![t] = [@ EXCEPT !.pc = "threw", !.cached = <<>>]]
    /\ isRendering' = Finally(isRendering)
    /\ UNCHANGED <<globalState, lastCall, live, svgCache, tikzjaxLoaded,
                   tikzjaxLoadPromise, loads, renderChain, requests, engineCalls,
                   lastPass, themeKind>>
    /\ UNCHANGED extVars

\* the awaited _nudgeDocument rejects (editor.edit or a command failed):
\* renderDocument leaves through finally, retryBlock rejects
NudgeThrows(t) ==
    /\ ~MicrotaskPending
    /\ tasks[t].pc = "nudge"
    /\ tasks' = [tasks EXCEPT ![t].pc = "threw"]
    /\ isRendering' = IF tasks[t].kind = "render" THEN Finally(isRendering)
                      ELSE isRendering
    /\ UNCHANGED <<globalState, lastCall, live, svgCache, tikzjaxLoaded,
                   tikzjaxLoadPromise, loads, renderChain, requests, engineCalls,
                   lastPass, themeKind>>
    /\ UNCHANGED extVars

\* the PreviewManager's calls and steps, with the memory cache cleared at any
\* time (clearMemoryCache) and awaits that reject
NextThrow ==
    \/ Next
    \/ ClearMemoryCache
    \/ \E t \in 1..Len(tasks) : GetThrows(t)
    \/ \E t \in 1..Len(tasks) : NudgeThrows(t)

SpecThrow == Init /\ [][NextThrow]_vars

\* ------------------------------------------- the text of a document
\* lines of a Markdown text: fence lines and lines of tikz code (the grave
\* accent of a fence is written ' here)
TextLines == {"'''tikz", "'''TikZ ", "'''", "~~~tikz", "'''js", "a", "b"}
\* the lines of a text
MaxLines == 5
Texts == UNION {[1..n -> TextLines] : n \in 0..MaxLines}

Least(S) == CHOOSE i \in S : \A j \in S : i <= j

\* the characters of lines first..last, each line with its line break
RECURSIVE LinesText(_, _, _)
LinesText(lines, first, last) ==
    IF first > last THEN <<>>
    ELSE <<lines[first], "\n">> \o LinesText(lines, first + 1, last)

\* TIKZ_BLOCK_REGEX, opening fence: ^'''tikz\s*$ under the flags m and i
MatchesOpeningFence(line) == line \in {"'''tikz", "'''TikZ "}
\* TIKZ_BLOCK_REGEX, closing fence: ^'''\s*$ under the flag m
MatchesClosingFence(line) == line = "'''"

\* a regex that also matches an opening fence with no closing fence line
\* after it, up to the end of the text
RegexExecToEnd(lines, from) ==
    LET opens == {i \in from..Len(lines) : MatchesOpeningFence(lines[i])} IN
    IF opens = {} THEN <<>>
    ELSE LET i == Least(opens)
             j == Least({k \in (i + 1)..Len(lines) : MatchesClosingFence(lines[k])}
                        \cup {Len(lines) + 1})
         IN <<[index |-> i, last |-> j,
               capture |-> <<"\n">> \o LinesText(lines, i + 1, j - 1)]>>

\* TIKZ_BLOCK_REGEX.exec(text) with lastIndex at the start of line from: the
\* leftmost opening fence line that has a closing fence line after it, the
\* first such closing line (the capture is lazy), and the capture, which
\* begins with the line break of the opening line
RegexExec(lines, from) ==
    LET opens == {i \in from..Len(lines) :
                    /\ MatchesOpeningFence(lines[i])
                    /\ \E j \in (i + 1)..Len(lines) : MatchesClosingFence(lines[j])}
    IN
    IF opens = {} THEN <<>>
    ELSE LET i == Least(opens)
             j == Least({k \in (i + 1)..Len(lines) : MatchesClosingFence(lines[k])})
         IN <<[index |-> i, last |-> j,
               capture |-> <<"\n">> \o LinesText(lines, i + 1, j - 1)]>>

\* DocumentParser.parse on a text: the while loop over the regex's matches
RECURSIVE ParseText(_, _)
ParseText(lines, from) ==
    LET match == RegexExec(lines, from) IN
    IF match = <<>> THEN <<>>
    ELSE <<TikzBlock(match[1].capture)>> \o ParseText(lines, match[1].last + 1)

\* DocumentParser.parse: the range of each block, from the start of the line
\* after the opening fence to the end of the line before the closing fence
RECURSIVE ParseRanges(_, _)
ParseRanges(lines, from) ==
    LET match == RegexExec(lines, from) IN
    IF match = <<>> THEN <<>>
    ELSE <<[start |-> match[1].index + 1, end |-> match[1].last - 1]>>
         \o ParseRanges(lines, match[1].last + 1)

\* markdown-it's fence rule on a line: the marker and the info string of an
\* opening fence (<<>> when the line opens none)
FenceMarkup(line) ==
    CASE line = "'''tikz" -> <<[char |-> "'", info |-> "tikz"]>>
      [] line = "'''TikZ " -> <<[char |-> "'", info |-> "TikZ "]>>
      [] line = "'''js" -> <<[char |-> "'", info |-> "js"]>>
      [] line = "'''" -> <<[char |-> "'", info |-> ""]>>
      [] line = "~~~tikz" -> <<[char |-> "~", info |-> "tikz"]>>
      [] OTHER -> <<>>

\* markdown-it: the line closes a fence opened with marker char: the same
\* marker, at least as long, and nothing after it
ClosesFence(line, char) == line = "'''" /\ char = "'"

\* markdown-it's fence tokens of a text: a fence runs to its closing line,
\* or to the end of the text when there is none
RECURSIVE FenceTokens(_, _)
FenceTokens(lines, from) ==
    IF from > Len(lines) THEN <<>>
    ELSE LET open == FenceMarkup(lines[from]) IN
         IF open = <<>> THEN FenceTokens(lines, from + 1)
         ELSE LET closers == {j \in (from + 1)..Len(lines) :
                                ClosesFence(lines[j], open[1].char)}
                  last == IF closers = {} THEN Len(lines) + 1 ELSE Least(closers)
              IN <<[info |-> open[1].info,
                    content |-> LinesText(lines, from + 1, last - 1)]>>
                 \o FenceTokens(lines, last + 1)

\* String.prototype.trim and toLowerCase on an info string
TrimInfo(info) == IF info = "TikZ " THEN "TikZ" ELSE info
ToLowerCase(info) == IF info = "TikZ" THEN "tikz" ELSE info

\* the fence rule: the tokens it treats as tikz
IsTikzToken(token) == ToLowerCase(TrimInfo(token.info)) = "tikz"

\* the fence rule on every token: the fingerprints it looks up with getSvg
RECURSIVE FenceLookups(_)
FenceLookups(tokens) ==
    IF tokens = <<>> THEN <<>>
    ELSE (IF IsTikzToken(Head(tokens)) THEN <<TikzHash(Head(tokens).content)>> ELSE <<>>)
         \o FenceLookups(Tail(tokens))

\* a Markdown document with this text is opened
OpenText ==
    /\ text.pc = "closed"
    /\ \E lines \in Texts : text' = [NoText EXCEPT !.pc = "open", !.lines = lines]
    /\ UNCHANGED <<cacheVars, previewVars, timerVars, fenceVars, activationVars, twins,
                   command, config, loop>>

\* DocumentParser.parse(document)
ParseDocument ==
    /\ text.pc \in {"open", "rendered"}
    /\ text' = [text EXCEPT !.blocks = ParseText(text.lines, 1),
                            !.ranges = ParseRanges(text.lines, 1),
                            !.pc = IF text.pc = "open" THEN "parsed" ELSE "both"]
    /\ UNCHANGED <<cacheVars, previewVars, timerVars, fenceVars, activationVars, twins,
                   command, config, loop>>

\* the Markdown preview renders the document: the fence rule runs on each
\* fence token
MarkdownRenders ==
    /\ text.pc \in {"open", "parsed"}
    /\ text' = [text EXCEPT !.fences = FenceLookups(FenceTokens(text.lines, 1)),
                            !.pc = IF text.pc = "open" THEN "rendered" ELSE "both"]
    /\ UNCHANGED <<cacheVars, previewVars, timerVars, fenceVars, activationVars, twins,
                   command, config, loop>>

NextText ==
    \/ OpenText
    \/ ParseDocument
    \/ MarkdownRenders

SpecText == Init /\ [][NextText]_vars

\* ------------------------------------- the source handed to the engine
\* lines of a tikz source: \pgfplotsset{compat=1.minor} directives, written
\* with or without white space inside, a line of other code, and an empty line
CompatMinors == {15, 16, 18}
CompatLine(minor, spaced) == [kind |-> "pgfplotsset", minor |-> minor, spaced |-> spaced]
CodeLine == [kind |-> "code", minor |-> 0, spaced |-> FALSE]
EmptyLine == [kind |-> "empty", minor |-> 0, spaced |-> FALSE]
TexLines == {CompatLine(minor, spaced) : minor \in CompatMinors, spaced \in BOOLEAN}
                \cup {CodeLine, EmptyLine}
\* the lines of a source
MaxTexLines == 3
TexSources == UNION {[1..n -> TexLines] : n \in 0..MaxTexLines}

\* preprocessSource: the lines of the source without the empty ones
PreprocessSource(tex) == SelectSeq(tex, LAMBDA line : line.kind # "empty")

\* the regex of the downgrade matches the line: pgfplotsset, compat = digits
\* and dots, white space allowed around the braces and the equals sign
MatchesCompat(line) == line.kind = "pgfplotsset"

\* String.prototype.replace with a regex without the g flag: the first match
\* is replaced by \pgfplotsset{compat=1.16}, whatever its version
RECURSIVE DowngradeCompat(_)
DowngradeCompat(processed) ==
    IF processed = <<>> THEN <<>>
    ELSE IF MatchesCompat(Head(processed))
         THEN <<CompatLine(16, FALSE)>> \o Tail(processed)
         ELSE <<Head(processed)>> \o DowngradeCompat(Tail(processed))

\* _renderTikzToSvg is called with a source
RenderTikzToSvgCalled ==
    /\ text.pc = "closed"
    /\ \E tex \in TexSources : text' = [NoText EXCEPT !.pc = "tex", !.tex = tex]
    /\ UNCHANGED <<cacheVars, previewVars, timerVars, fenceVars, activationVars, twins,
                   command, config, loop>>

\* _renderTikzToSvg up to the call of tex2svg: processed is what the engine gets
RenderTikzToSvgInvokes ==
    /\ text.pc = "tex"
    /\ text' = [text EXCEPT !.pc = "invoked",
                            !.processed = DowngradeCompat(PreprocessSource(text.tex))]
    /\ UNCHANGED <<cacheVars, previewVars, timerVars, fenceVars, activationVars, twins,
                   command, config, loop>>

NextCompat ==
    \/ RenderTikzToSvgCalled
    \/ RenderTikzToSvgInvokes

SpecCompat == Init /\ [][NextCompat]_vars

\* ------------------------------------------------------------------ claims
RequestsOf(t, h) ==
    {r \in 1..Len(requests) : requests[r].task = t /\ requests[r].hash = h}
EngineCallsOf(t, h) ==
    {c \in 1..Len(engineCalls) :
        requests[engineCalls[c].request].task = t /\ engineCalls[c].hash = h}
Failed(r) == requests[r].outcome \in {"engineError", "loadError", "timeout"}
PassesInFlight(ts) ==
    {t \in 1..Len(ts) : ts[t].kind = "render" /\ ts[t].pc \notin {"done", "threw"}}

\* C1: at most one tex2svg call is running in every reachable state, whatever
\* the interleaving of requests, engine completions and timeouts.
C1_OneEngineCallInFlight ==
    Cardinality({c \in 1..Len(engineCalls) : engineCalls[c].status = "running"}) <= 1

\* C2: at most one renderDocument pass is in flight; a renderDocument call
\* made while a pass (over any document) is in flight returns at once, reads
\* and writes no cache, appends no request, nudges nothing, and is never
\* taken up later.
C2_CallStep ==
    /\ Cardinality(PassesInFlight(tasks')) <= 1
    /\ \A t \in 1..Len(tasks') :
          tasks'[t].overlapped =>
             /\ tasks'[t].pc = "done"
             /\ tasks'[t].log = <<>>
             /\ \A r \in 1..Len(requests') : requests'[r].task # t
    /\ (Len(tasks') = Len(tasks) + 1 /\ tasks'[Len(tasks')].kind = "render"
        /\ PassesInFlight(tasks) # {}) =>
          /\ tasks'[Len(tasks')].overlapped
          /\ tasks' = Append(tasks, tasks'[Len(tasks')])
          /\ UNCHANGED <<globalState, svgCache, isRendering, tikzjaxLoaded,
                         tikzjaxLoadPromise, loads, renderChain, requests, engineCalls>>

C2_SinglePass == [][C2_CallStep]_vars

\* C2 witness: a call for another document was dropped while a pass is in flight
C2_Witness ==
    \E t, u \in 1..Len(tasks) :
        /\ tasks[u].overlapped /\ tasks[u].dropped
        /\ tasks[t].kind = "render" /\ InFlight(t) /\ tasks[t].pc = "render"
        /\ tasks[t].blocks # tasks[u].blocks

\* C3: the steps run in append order: a step has started only when every step
\* appended before it has completed (with a result or with an error, timeout
\* included), and no step is skipped.
C3_ChainOrder ==
    \A r \in 1..Len(requests) :
        /\ requests[r].status # "rejected"
        /\ requests[r].status # "pending" =>
              \A q \in 1..(r - 1) : requests[q].status = "fulfilled"
        /\ requests[r].status = "fulfilled" => requests[r].outcome # "none"

\* C3 witness: the step appended after a step that timed out is running
C3_Witness ==
    \E r \in 1..Len(requests) :
        /\ r > 1
        /\ requests[r - 1].outcome = "timeout"
        /\ requests[r].status = "running"

\* C4: a block whose fingerprint is in the memory cache (as svg or as error)
\* when the pass reaches it causes no persistent read, no request and no nudge.
C4_SkipRule ==
    \A t \in 1..Len(tasks) :
        tasks[t].kind = "render" =>
            \A i \in 1..Len(tasks[t].log) :
                tasks[t].log[i].inMemory =>
                    /\ ~tasks[t].log[i].read
                    /\ tasks[t].log[i].request = 0
                    /\ ~tasks[t].log[i].nudged

\* C4 witness: a pass skipped a block cached as an error
C4_Witness ==
    \E t \in 1..Len(tasks) :
        /\ tasks[t].kind = "render"
        /\ \E i \in 1..Len(tasks[t].log) :
              /\ tasks[t].log[i].inMemory
              /\ tasks[t].log[i].result # <<>>
              /\ tasks[t].log[i].result[1].error # <<>>

\* C5: a step whose engine call threw, whose load failed or whose timer fired
\* stores an error in the memory cache and writes nothing to globalState;
\* every stored entry holds the raw output of a tex2svg call that resolved
\* for its fingerprint.
C5_FailuresNotPersisted ==
    /\ \A r \in 1..Len(requests) :
          Failed(r) =>
             /\ ~requests[r].persisted
             /\ requests[r].result # <<>> /\ requests[r].result[1].error # <<>>
    /\ \A h \in Hashes :
          globalState.cache[h] # <<>> =>
             \E c \in 1..Len(engineCalls) :
                /\ engineCalls[c].hash = h
                /\ engineCalls[c].status = "resolved"
                /\ engineCalls[c].svg = <<globalState.cache[h][1].svg>>
                /\ ~Failed(engineCalls[c].request)

\* C5 witness: a step timed out, its abandoned call has settled since, and
\* nothing is stored for its fingerprint
C5_Witness ==
    \E r \in 1..Len(requests) :
        /\ requests[r].outcome = "timeout"
        /\ engineCalls[requests[r].call].status = "settled"
        /\ globalState.cache[requests[r].hash] = <<>>
        /\ requests[r].hash \notin Range(GetIndex(globalState))

Retrievable(gs) == {h \in Hashes : CmGet(gs, h).entry # <<>>}

\* C7: after any sequence of awaited set / invalidate / clear calls (and gets)
\* the index lists exactly the fingerprints whose entry is present, each once,
\* and getStats().entryCount is the number of retrievable fingerprints.
C7_IndexConsistency ==
    LET index == GetIndex(globalState) IN
    /\ \A i, j \in 1..Len(index) : index[i] = index[j] => i = j
    /\ Range(index) = Retrievable(globalState)
    /\ CmGetStats(globalState).stats.entryCount = Cardinality(Retrievable(globalState))

\* C7 witness: an invalidate of a stored fingerprint left another one stored
C7_Witness ==
    /\ lastCall.op = "invalidate"
    /\ lastCall.wasLive
    /\ Len(GetIndex(globalState)) = 1
    /\ Cardinality(Retrievable(globalState)) = 1

\* C8: a get right after set(h, e) returns e with accessCount one higher; each
\* further get of h returns, and leaves stored, a count one higher than the
\* get before it, the other fields unchanged; a get of a fingerprint never
\* set, or invalidated or cleared since, returns undefined.
C8_GetStep ==
    lastCall'.op = "get" =>
        LET h == lastCall'.hash[1]
            r == lastCall'.ret
        IN
        /\ ~lastCall'.wasLive => r = <<>>
        /\ lastCall'.wasLive => r # <<>> /\ globalState'.cache[h] = r
        /\ (lastCall.op = "set" /\ lastCall.hash = <<h>>) =>
              /\ r # <<>>
              /\ r[1].hash = lastCall.arg[1].hash
              /\ r[1].svg = lastCall.arg[1].svg
              /\ r[1].timestamp = lastCall.arg[1].timestamp
              /\ r[1].accessCount = lastCall.arg[1].accessCount + 1
        /\ (lastCall.op = "get" /\ lastCall.hash = <<h>> /\ lastCall.ret # <<>>) =>
              /\ r # <<>>
              /\ r[1].hash = lastCall.ret[1].hash
              /\ r[1].svg = lastCall.ret[1].svg
              /\ r[1].timestamp = lastCall.ret[1].timestamp
              /\ r[1].accessCount = lastCall.ret[1].accessCount + 1

C8_RoundTrip == [][C8_GetStep]_vars

\* C8 witness: a stored entry has been returned, and stored back, by successive gets
C8_Witness ==
    /\ lastCall.op = "get"
    /\ lastCall.ret # <<>>
    /\ lastCall.ret[1].accessCount = 3
    /\ \E h \in Hashes : lastCall.hash = <<h>> /\ globalState.cache[h] = lastCall.ret

\* C9: a pass over the blocks of the clean pass that ended just before it,
\* with no retry, clear or reset since that pass began, appends no request, so
\* makes no tex2svg call; over the two passes a fingerprint is rendered by at
\* most one request, and by exactly one when the first pass began with it in
\* neither cache and no other call in flight; that request made one tex2svg
\* call (none when the engine load failed), whether it ended as svg or as error.
C9_SecondPassRendersNothing ==
    \A t \in 1..Len(tasks) :
        tasks[t].second =>
            LET f == tasks[t].first IN
            /\ \A r \in 1..Len(requests) : requests[r].task # t
            /\ \A i \in 1..Len(tasks[f].blocks) :
                  LET h == tasks[f].blocks[i].hash IN
                  /\ Cardinality(RequestsOf(f, h)) <= 1
                  /\ (tasks[f].alone /\ h \in tasks[f].cold) =>
                        Cardinality(RequestsOf(f, h)) = 1
                  /\ \A r \in RequestsOf(f, h) :
                        Cardinality(EngineCallsOf(f, h) \cup EngineCallsOf(t, h))
                           = IF requests[r].outcome = "loadError" THEN 0 ELSE 1

\* C9 witness: the second pass has ended, over two blocks of which the first
\* pass rendered one to an svg and one to an error
C9_Witness ==
    \E t \in 1..Len(tasks) :
        /\ tasks[t].second /\ tasks[t].pc = "done" /\ Len(tasks[t].log) = 2
        /\ \E r, q \in 1..Len(requests) :
              /\ requests[r].task = tasks[t].first /\ requests[r].outcome = "ok"
              /\ requests[q].task = tasks[t].first /\ requests[q].outcome = "engineError"

\* C10: two blocks whose sources differ but trim to the same text get the same
\* fingerprint; a pass over them that began with the fingerprint in neither
\* cache, with no other call in flight or made meanwhile, renders it by one
\* request (one tex2svg call, none when the load failed), and leaves both
\* blocks with the same memory cache result.
C10_DuplicateBlocks ==
    \A t \in 1..Len(tasks) :
        (/\ tasks[t].kind = "render" /\ Len(tasks[t].blocks) = 2
         /\ tasks[t].blocks[1].source # tasks[t].blocks[2].source
         /\ Trim(tasks[t].blocks[1].source) = Trim(tasks[t].blocks[2].source)) =>
            LET h == tasks[t].blocks[1].hash IN
            /\ tasks[t].blocks[2].hash = h
            /\ (tasks[t].pc = "done" /\ ~tasks[t].dropped /\ tasks[t].alone
                /\ h \in tasks[t].cold) =>
                  /\ Cardinality(RequestsOf(t, h)) = 1
                  /\ \A r \in RequestsOf(t, h) :
                        Cardinality(EngineCallsOf(t, h))
                           = IF requests[r].outcome = "loadError" THEN 0 ELSE 1
                  /\ Len(tasks[t].log) = 2
                  /\ tasks[t].log[1].result # <<>>
                  /\ tasks[t].log[1].result = tasks[t].log[2].result

\* C10 witness: such a pass has ended with an svg for both blocks
C10_Witness ==
    \E t \in 1..Len(tasks) :
        /\ tasks[t].kind = "render" /\ tasks[t].pc = "done" /\ tasks[t].alone
        /\ Len(tasks[t].log) = 2
        /\ tasks[t].blocks[1].source # tasks[t].blocks[2].source
        /\ tasks[t].blocks[1].hash \in tasks[t].cold
        /\ tasks[t].log[1].request # 0
        /\ tasks[t].log[2].inMemory
        /\ tasks[t].log[2].result # <<>> /\ tasks[t].log[2].result[1].svg # <<>>

\* C11: when tex2svg resolves with artifact a in a step for fingerprint h, the
\* step puts the success result postProcessSvg(a, dark mode) in the memory
\* cache and the entry with the raw a in globalState under h; when the step
\* ends with that result still in the memory cache, getSvg(h) returns it, and
\* globalState holds the entry with the raw a and has h in the index.
C11_RenderStep ==
    \A r \in 1..Len(requests) :
        LET h == requests[r].hash
            a == Tex2Svg(requests[r].source)
            stored == <<SvgResult(PostProcessSvg(a, IsDarkMode))>>
        IN
        /\ (Running(r, "race") /\ requests'[r].phase = "set") =>
              /\ engineCalls'[requests[r].call].svg = <<a>>
              /\ svgCache'[h] = stored
              /\ globalState'.cache[h] # <<>>
              /\ globalState'.cache[h][1].svg = a
              /\ globalState'.cache[h][1].hash = h
        /\ (Running(r, "set") /\ requests'[r].status = "fulfilled"
            /\ svgCache[h] = requests[r].result) =>
              /\ svgCache'[h] = stored
              /\ globalState'.cache[h] # <<>>
              /\ globalState'.cache[h][1].svg = a
              /\ h \in Range(GetIndex(globalState'))

C11_RenderStored == [][C11_RenderStep]_vars

\* C11 witness: a step has ended with its post-processed svg in the memory
\* cache and the raw svg, which differs from it, in globalState
C11_Witness ==
    \E r \in 1..Len(requests) :
        /\ requests[r].outcome = "ok"
        /\ svgCache[requests[r].hash] = requests[r].result
        /\ globalState.cache[requests[r].hash] # <<>>
        /\ requests[r].result[1].svg # <<globalState.cache[requests[r].hash][1].svg>>
        /\ requests[r].hash \in Range(GetIndex(globalState))

IsError(result) == result # <<>> /\ result[1].error # <<>>
IsSvg(result) == result # <<>> /\ result[1].svg # <<>>

\* C12: a retryBlock call for a fingerprint h (cached as an error or not) deletes h
\* from the memory cache and its entry from globalState at the call, removes
\* h from the index, and only then appends its one request; the request makes
\* one tex2svg call (none when the engine load failed); the call nudges once,
\* after its request has ended; when the request ends with an svg and no
\* other retryBlock was called meanwhile, the memory cache then holds an svg
\* for h and globalState holds its entry and has h in the index.
C12_RetryStep ==
    \A t \in 1..Len(tasks') :
        tasks'[t].kind = "retry" =>
            LET h == tasks'[t].blocks[1].hash
                mine == {r \in 1..Len(requests') : requests'[r].task = t}
                calls == {c \in 1..Len(engineCalls') :
                             requests'[engineCalls'[c].request].task = t}
            IN
            /\ t > Len(tasks) =>
                  /\ tasks'[t].pc = "invalidate"
                  /\ svgCache'[h] = <<>>
                  /\ globalState'.cache[h] = <<>>
            /\ tasks'[t].pc = "invalidate" => mine = {}
            /\ (t <= Len(tasks) /\ tasks[t].pc = "invalidate" /\ tasks'[t].pc = "render") =>
                  /\ h \notin Range(GetIndex(globalState'))
                  /\ mine = {Len(requests) + 1}
                  /\ requests'[Len(requests) + 1].hash = h
            /\ tasks'[t].pc \in {"render", "nudge", "done"} =>
                  /\ Cardinality(mine) = 1
                  /\ Cardinality(calls) <= 1
            /\ tasks'[t].log[1].nudged <=> tasks'[t].pc \in {"nudge", "done"}
            /\ tasks'[t].pc \in {"nudge", "done"} =>
                  \A r \in mine :
                     /\ requests'[r].status = "fulfilled"
                     /\ Cardinality(calls) = IF requests'[r].outcome = "loadError" THEN 0 ELSE 1
            /\ tasks'[t].clean =>
                  \A r \in mine :
                     (r <= Len(requests) /\ requests[r].status = "running"
                      /\ requests'[r].outcome = "ok") =>
                        /\ IsSvg(svgCache'[h])
                        /\ globalState'.cache[h] # <<>>
                        /\ h \in Range(GetIndex(globalState'))

C12_Retry == [][C12_RetryStep]_vars

\* C12 witness: a retryBlock call made after the passes before it had ended,
\* the last request for its fingerprint having failed, has returned; its
\* request ended with an svg, and both caches hold the fingerprint
C12_Witness ==
    \E t \in 1..Len(tasks) :
        /\ tasks[t].kind = "retry" /\ tasks[t].pc = "done"
        /\ \A u \in 1..(t - 1) : tasks[u].kind = "render" /\ tasks[u].clean
        /\ \E r \in 1..(tasks[t].request - 1) :
              /\ requests[r].hash = tasks[t].blocks[1].hash /\ Failed(r)
              /\ \A q \in (r + 1)..(tasks[t].request - 1) :
                    requests[q].hash # tasks[t].blocks[1].hash
        /\ requests[tasks[t].request].outcome = "ok"
        /\ IsSvg(svgCache[tasks[t].blocks[1].hash])
        /\ globalState.cache[tasks[t].blocks[1].hash] # <<>>

\* C13: when the timer fires before the tex2svg call of a step has settled,
\* the step ends: the memory cache gets an error result for the fingerprint
\* whose message is the timeout message, globalState is not written, the
\* tex2svg call stays in flight, and the start of a step chained on this one
\* is queued at once.
C13_TimerStep ==
    \A r \in 1..Len(requests) :
        (Running(r, "race") /\ requests'[r].outcome = "timeout") =>
            /\ requests'[r].status = "fulfilled"
            /\ svgCache'[requests[r].hash]
                  = <<ErrorResult([prefix |-> "", detail |-> TimeoutError.message])>>
            /\ globalState' = globalState
            /\ engineCalls' = engineCalls
            /\ engineCalls[requests[r].call].status = "running"
            /\ \A q \in 1..Len(requests) :
                  requests[q].pred = r =>
                     /\ requests'[q].status = "pending"
                     /\ MicrotaskPending'

C13_Timeout == [][C13_TimerStep]_vars

\* C13 witness: the step after one that timed out has made its own tex2svg
\* call while the call of the timed-out step is still in flight
C13_Witness ==
    \E r \in 1..Len(requests) :
        /\ r > 1
        /\ requests[r - 1].outcome = "timeout"
        /\ engineCalls[requests[r - 1].call].status = "running"
        /\ Running(r, "race")
        /\ IsError(svgCache[requests[r - 1].hash])
        /\ globalState.cache[requests[r - 1].hash] = <<>>

Unloaded == ~tikzjaxLoaded /\ tikzjaxLoadPromise = 0
NoResults == [h \in Hashes |-> <<>>]

\* C14: the engine leaves Ready only by resetEngine, which leaves it Unloaded,
\* empties the memory cache and does not write globalState; from Unloaded the
\* engine gets to Ready only through a load that a render request starts
\* after the reset, so no step calls tex2svg before such a load.
C14_EngineStep ==
    /\ (tikzjaxLoaded /\ ~tikzjaxLoaded') =>
          /\ Unloaded'
          /\ svgCache' = NoResults
          /\ globalState' = globalState
    /\ Unloaded =>
          /\ ~tikzjaxLoaded'
          /\ engineCalls' = engineCalls
          /\ tikzjaxLoadPromise' # 0 =>
                /\ Len(loads') = Len(loads) + 1
                /\ tikzjaxLoadPromise' = Len(loads')
                /\ \E r \in 1..Len(requests) :
                      requests[r].status = "pending" /\ requests'[r].load = Len(loads')

C14_ResetUnloads == [][C14_EngineStep]_vars

\* C15: of two requests for one fingerprint of which the second was appended
\* before the first had ended, at most one calls tex2svg, and when both have
\* ended their callers got the same result.
C15_Demultiplexed ==
    \A q \in 1..Len(twins) :
        twins[q] # 0 =>
            LET r == twins[q] IN
            /\ ~(requests[r].call # 0 /\ requests[q].call # 0)
            /\ (requests[r].status = "fulfilled" /\ requests[q].status = "fulfilled") =>
                  requests[r].result = requests[q].result

\* the change events that set the timer of a callback
Resets(e, owner) ==
    /\ e.kind = "change"
    /\ IF owner = "render" THEN LanguageId(e.doc) = "markdown" ELSE e.doc = WatchedDoc
DelayOf(owner) == IF owner = "render" THEN RenderDebounceMs ELSE ParseDebounceMs

\* C16: a callback (renderDocument after 1000 ms, parse after 500 ms) runs
\* only one delay after the last change event that set its timer, for that
\* event's document, and once for it; no callback runs between two such
\* events less than the delay apart; and once more than the delay has passed
\* since the last such event, the callback has run.
C16_Debounced ==
    \A owner \in {"render", "parse"} :
        /\ \A i \in 1..Len(eventLog) :
              eventLog[i].kind = owner =>
                 \E j \in 1..(i - 1) :
                    /\ Resets(eventLog[j], owner)
                    /\ eventLog[j].time + DelayOf(owner) = eventLog[i].time
                    /\ eventLog[j].doc = eventLog[i].doc
                    /\ \A k \in (j + 1)..(i - 1) :
                          ~Resets(eventLog[k], owner) /\ eventLog[k].kind # owner
        /\ \A j, k \in 1..Len(eventLog) :
              (/\ j < k /\ Resets(eventLog[j], owner) /\ Resets(eventLog[k], owner)
               /\ eventLog[k].time - eventLog[j].time < DelayOf(owner)) =>
                 \A i \in (j + 1)..(k - 1) : eventLog[i].kind # owner
        /\ \A j \in 1..Len(eventLog) :
              (/\ Resets(eventLog[j], owner)
               /\ \A k \in (j + 1)..Len(eventLog) : ~Resets(eventLog[k], owner)
               /\ eventLog[j].time + DelayOf(owner) < clock) =>
                 \E i \in (j + 1)..Len(eventLog) : eventLog[i].kind = owner

\* C16 witness: after two changes of the watched document less than 500 ms
\* apart, one parse callback and one render callback have run
C16_Witness ==
    \E j, k, i, p \in 1..Len(eventLog) :
        /\ j < k /\ k < i /\ k < p
        /\ eventLog[j].kind = "change" /\ eventLog[j].doc = "a.md"
        /\ eventLog[k].kind = "change" /\ eventLog[k].doc = "a.md"
        /\ eventLog[k].time > eventLog[j].time
        /\ eventLog[k].time - eventLog[j].time < ParseDebounceMs
        /\ eventLog[i].kind = "render" /\ eventLog[i].time = eventLog[k].time + RenderDebounceMs
        /\ eventLog[p].kind = "parse" /\ eventLog[p].time = eventLog[k].time + ParseDebounceMs
        /\ Cardinality({n \in 1..Len(eventLog) : eventLog[n].kind \in {"render", "parse"}}) = 2

\* C17: a pass takes the blocks one at a time in document order; a block found
\* in the persistent cache or rendered through the chain is nudged for once it
\* has its result, and the lookup of the next block begins only after that
\* nudge has returned; a block skipped on the memory cache is not nudged for.
C17_BlockByBlock ==
    \A t \in 1..Len(tasks) :
        (tasks[t].kind = "render" /\ ~tasks[t].dropped) =>
            LET log == tasks[t].log
                n == Len(log)
            IN
            /\ n <= Len(tasks[t].blocks)
            /\ \A i \in 1..n : log[i].hash = tasks[t].blocks[i].hash
            /\ tasks[t].pc = "done" => n = Len(tasks[t].blocks)
            /\ tasks[t].pc \in {"get", "render", "nudge"} => tasks[t].i = n
            /\ \A i \in 1..n :
                  /\ log[i].inMemory => ~log[i].nudged
                  /\ log[i].nudged =>
                        /\ log[i].read
                        /\ log[i].request = 0 => IsSvg(log[i].result)
                        /\ log[i].request # 0 =>
                              requests[log[i].request].status = "fulfilled"
                  /\ (i < n \/ tasks[t].pc = "done") => (log[i].nudged <=> ~log[i].inMemory)
                  /\ (i = n /\ tasks[t].pc \in {"get", "render"}) => ~log[i].nudged
                  /\ (i = n /\ tasks[t].pc = "nudge") => log[i].nudged

\* C17 witness: a pass over two blocks is in the nudge for the second block it
\* rendered, after the nudge for the first
C17_Witness ==
    \E t \in 1..Len(tasks) :
        /\ tasks[t].kind = "render" /\ tasks[t].pc = "nudge"
        /\ Len(tasks[t].log) = 2
        /\ tasks[t].log[1].hash # tasks[t].log[2].hash
        /\ tasks[t].log[1].request # 0 /\ tasks[t].log[1].nudged
        /\ tasks[t].log[2].request # 0 /\ tasks[t].log[2].nudged

\* a step of the fence rule that is not a stuttering step
FenceStep == fenceOut' # fenceOut \/ bgTimers' > bgTimers
\* a step of the callback of scheduleBackgroundRender's timer
BgFireStep == bgTimers' < bgTimers

C18_FenceStep ==
    /\ \* at most one timer is set, and bgRenderScheduled tells whether it is
       /\ bgTimers' \in {0, 1}
       /\ bgRenderScheduled' <=> bgTimers' = 1
    /\ \* the rule returns the placeholder exactly on a miss
       (FenceStep /\ fenceOut'.html # "placeholder") =>
            /\ UNCHANGED <<bgRenderScheduled, bgTimers, bgRenders, tasks>>
            /\ fenceOut'.html \in {"default", "diagram", "error"}
            /\ fenceOut'.html = "diagram" => \E h \in Hashes : IsSvg(svgCache[h])
            /\ fenceOut'.html = "error" => \E h \in Hashes : IsError(svgCache[h])
    /\ \* a miss sets the timer when none is set, and sets none when one is
       (FenceStep /\ fenceOut'.html = "placeholder") =>
            /\ \E h \in Hashes : svgCache[h] = <<>>
            /\ bgRenderScheduled' /\ bgTimers' = 1
            /\ fenceOut'.scheduled <=> ~bgRenderScheduled
            /\ UNCHANGED <<bgRenders, tasks, svgCache>>
    /\ \* the callback makes one renderDocument call, or none when there is
       \* no markdown document
       BgFireStep =>
            /\ ~bgRenderScheduled' /\ bgTimers' = 0
            /\ bgRenders' \in {bgRenders, bgRenders + 1}
            /\ Len(tasks') = Len(tasks) + (bgRenders' - bgRenders)
            /\ bgRenders' # bgRenders => tasks'[Len(tasks')].kind = "render"
    /\ \* no other step makes a background renderDocument call or sets the timer
       (~FenceStep /\ ~BgFireStep) =>
            UNCHANGED <<bgRenderScheduled, bgTimers, bgRenders>>

\* C18: a fence-rule call that finds no result for a tikz fence returns the
\* placeholder at once and sets the background timer unless it is already
\* set, so that at most one timer is pending however many misses there are;
\* the timer's callback clears the flag and makes exactly one renderDocument
\* call for the markdown document it finds, and a later miss sets a new timer.
C18_BackgroundRender == [][C18_FenceStep]_vars

\* C18 witness: a background render has been made, and after it a miss has
\* set the timer again and a further miss has found it set
C18_Witness ==
    /\ bgRenders >= 1
    /\ bgTimers = 1 /\ bgRenderScheduled
    /\ fenceOut = [html |-> "placeholder", scheduled |-> FALSE]

\* the entries stored when the session's activate ran that are still stored
\* and that no step of the session has written
KeptSinceStartup ==
    {h \in Hashes :
        /\ activation.startup[h] # <<>>
        /\ globalState.cache[h] # <<>>
        /\ ~\E r \in 1..Len(requests) : requests[r].hash = h /\ requests[r].persisted}

C19_ActivationStep ==
    /\ \* the version is written only as 2, over a lower one, once clear has
       \* returned, and no entry stored at startup is then left
       cacheVersion' # cacheVersion =>
            /\ cacheVersion' = <<CurrentCacheVersion>>
            /\ activation.startVersion < CurrentCacheVersion
            /\ activation.pc = "version"
            /\ KeptSinceStartup = {}
    /\ \* a lower version ends in a written version
       (activation'.startVersion < CurrentCacheVersion /\ activation'.pc = "done") =>
            cacheVersion' = <<CurrentCacheVersion>>
    /\ \* with version 2 or higher activate removes nothing and writes nothing
       activation'.startVersion >= CurrentCacheVersion =>
            /\ activation'.pc = "done"
            /\ activation'.session # activation.session =>
                    globalState' = globalState /\ cacheVersion' = cacheVersion
            /\ activation'.session = activation.session => cacheVersion' = cacheVersion

\* C19: when activate finds a stored cache version below 2, every entry
\* stored at that moment is removed and then, after clear has returned, the
\* version is written as 2; when it finds 2 or more, it removes no entry and
\* leaves the version as it is.
C19_CacheVersioning == [][C19_ActivationStep]_vars

Indexed(gs) == Range(GetIndex(gs))

C20_InvalidateStep ==
    lastCall'.op = "invalidate" =>
        LET h == lastCall'.hash[1] IN
        /\ globalState'.cache[h] = <<>>
        /\ h \notin Indexed(globalState')
        /\ \A g \in Hashes \ {h} :
              /\ globalState'.cache[g] = globalState.cache[g]
              /\ g \in Indexed(globalState') <=> g \in Indexed(globalState)
        /\ GetIndex(globalState') = SelectSeq(GetIndex(globalState), LAMBDA g : g # h)
        /\ (globalState.cache[h] = <<>> /\ h \notin Indexed(globalState)) =>
              /\ globalState'.cache = globalState.cache
              /\ Indexed(globalState') = Indexed(globalState)

\* C20: invalidate(h) returns with h's entry and index membership gone and
\* every other entry and its index membership as they were; when h was
\* neither stored nor indexed, the entries and the set of indexed
\* fingerprints are as they were.
C20_InvalidateOnlyH == [][C20_InvalidateStep]_vars

\* C20 witness: invalidate was called for a stored fingerprint while another
\* fingerprint was stored and indexed, and that one still is
C20_Witness ==
    /\ lastCall.op = "invalidate" /\ lastCall.wasLive
    /\ \E g \in Hashes \ {lastCall.hash[1]} :
          globalState.cache[g] # <<>> /\ g \in Indexed(globalState)

NoStats == [entryCount |-> 0, totalSize |-> 0]

C21_ClearStep ==
    /\ lastCall'.op = "clear" =>
          /\ \A h \in Range(GetIndex(globalState)) : globalState'.cache[h] = <<>>
          /\ GetIndex(globalState') = <<>>
          /\ \A h \in Retrievable(globalState) : CmGet(globalState', h).entry = <<>>
          /\ Retrievable(globalState') = {}
          /\ CmGetStats(globalState').stats = NoStats
    /\ (lastCall.op = "clear" /\ lastCall'.op = "getStats") =>
          lastCall'.stats = <<NoStats>>
    /\ (lastCall.op = "clear" /\ lastCall'.op = "get") => lastCall'.ret = <<>>
    /\ (lastCall.op = "clear" /\ lastCall'.op = "set") =>
          LET h == lastCall'.hash[1]
              got == CmGet(globalState', h).entry
          IN
          /\ Retrievable(globalState') = {h}
          /\ got # <<>> /\ got[1].svg = lastCall'.arg[1].svg

\* C21: an awaited clear removes every indexed entry and the index: right
\* after it get returns undefined for every fingerprint that was stored and
\* getStats returns entryCount 0 and totalSize 0, also when nothing was
\* stored; an entry set right after it is returned by get.
C21_Clear == [][C21_ClearStep]_vars

\* C21 witness: a clear of a cache that held entries has returned
C21_Witness == lastCall.op = "clear" /\ lastCall.wasLive

\* a chain step for fingerprint h has ended that was appended after the
\* command was issued, or whose engine call was made after it was issued
RenderedSince(h) ==
    \E r \in 1..Len(requests) :
        /\ requests[r].hash = h
        /\ requests[r].status \in {"fulfilled", "rejected"}
        /\ r > command.requestsAt \/ requests[r].call > command.callsAt

\* no renderDocument or retryBlock call is in flight
Quiescent == \A t \in 1..Len(tasks) : ~InFlight(t)

\* C22: when the Refresh TikZ Diagrams command has completed (and the passes
\* that were in flight have ended), for every block of the document the entry
\* that was stored before the command is gone or was written again by a
\* render made since, and the block has been rendered by the engine since the
\* command was issued, whether or not a pass was in flight when it was issued
C22_RefreshRerenders ==
    (command.kind = "refresh" /\ command.pc = "done" /\ Quiescent) =>
        \A i \in 1..Len(command.blocks) :
            LET h == command.blocks[i].hash IN
            /\ h \in command.entriesAt => globalState.cache[h] = <<>> \/ RenderedSince(h)
            /\ RenderedSince(h)

\* a chain step for fingerprint h has produced a result that does not come
\* from an engine call made before the command was issued
FreshResult(h) ==
    \E r \in 1..Len(requests) :
        /\ requests[r].hash = h
        /\ requests[r].result # <<>>
        /\ requests[r].call = 0 \/ requests[r].call > command.callsAt

\* a chain step for fingerprint h has persisted the svg of an engine call
\* made after the command was issued
FreshEntry(h) ==
    \E r \in 1..Len(requests) :
        /\ requests[r].hash = h
        /\ requests[r].persisted
        /\ requests[r].call > command.callsAt

\* nothing in the two caches comes from an engine call made before the command
C23_NothingStale ==
    \A h \in Hashes :
        /\ globalState.cache[h] # <<>> => FreshEntry(h)
        /\ svgCache[h] # <<>> => FreshResult(h)

\* every block of the document has been rendered since the command was issued
C23_AllFresh ==
    \A i \in 1..Len(command.blocks) : RenderedSince(command.blocks[i].hash)

\* C23: when the Clear TikZ Cache command has completed (and the passes that
\* were in flight have ended), the Persistent Cache and the Memory Cache hold
\* nothing produced by an engine call made before the command was issued, and
\* every block of the current document has been rendered by the engine since
C23_ClearForcesFresh ==
    (command.kind = "clear" /\ command.pc = "done" /\ Quiescent) =>
        C23_NothingStale /\ C23_AllFresh

\* C24: a step that stores an svg in the Memory Cache stores it with the
\* dark-mode transform applied exactly when the setting
\* tikzjax.invertColorsInDarkMode is true and the active theme is dark or
\* high-contrast; with the setting false the svg stored is never transformed
C24_StoreStep ==
    \A h \in Hashes :
        (svgCache'[h] # svgCache[h] /\ SvgCacheHasSvg(svgCache', h)) =>
            svgCache'[h][1].svg[1].dark =
                (config.invertColorsInDarkMode /\ themeKind \in {"Dark", "HighContrast"})

C24_InvertSetting == [][C24_StoreStep]_vars

\* the part of C24 for the setting left true
C24_SettingTrueStep ==
    config.invertColorsInDarkMode => C24_StoreStep

\* no CacheManager operation is in progress: the command has returned and
\* every chain step has ended
OperationsCompleted ==
    /\ command.kind # "none" /\ CommandIdle
    /\ Quiescent
    /\ \A r \in 1..Len(requests) : requests[r].status \in {"fulfilled", "rejected"}

\* the fingerprints with an entry stored that are not in the index
Orphans(gs) == {h \in Hashes : gs.cache[h] # <<>>} \ Range(GetIndex(gs))

\* the fingerprints in the index with no entry stored
Dangling(gs) == {h \in Range(GetIndex(gs)) : gs.cache[h] = <<>>}

\* C25: once a command's clear or invalidate calls and the render steps'
\* set calls that ran interleaved with them have all completed, every stored
\* entry's fingerprint is in the index and every indexed fingerprint has an
\* entry
C25_IndexConsistent ==
    OperationsCompleted => Orphans(globalState) = {} /\ Dangling(globalState) = {}

\* the engine call of request r, made before the command was issued, settles
\* in this step and the step of r gets its result
SettlesStale(r) ==
    /\ requests[r].call # 0 /\ requests[r].call <= command.callsAt
    /\ engineCalls[requests[r].call].status = "running"
    /\ engineCalls'[requests[r].call].status # "running"
    /\ requests[r].result = <<>> /\ requests'[r].result # <<>>

\* C26: after resetEngine, the completion of a chain step whose engine call
\* was made before the reset does not insert its result into the Memory Cache
C26_ResetStep ==
    command.kind = "reset" =>
        \A r \in 1..Len(requests) :
            SettlesStale(r) => svgCache'[requests[r].hash] = svgCache[requests[r].hash]

C26_NoStaleResult == [][C26_ResetStep]_vars

\* the fingerprints of the blocks of a document
HashesOf(doc) == {TikzHash(doc[i]) : i \in 1..Len(doc)}

\* C27: once the user has stopped editing, every block of the document
\* eventually has a result in the Memory Cache (getSvg returns it), also when
\* renderDocument calls were dropped by the re-entrancy guard
C27_EventuallyResolves ==
    \A h \in Hashes :
        (loop.edits = MaxEdits /\ h \in HashesOf(loop.doc)) ~> (svgCache[h] # <<>>)

\* no pass in flight, no debounce or background-render timer set, every chain
\* step ended, the preview up to date
LoopQuiescent ==
    /\ Quiescent
    /\ timers = {} /\ debounceTimer = <<>>
    /\ bgTimers = 0 /\ ~bgRenderScheduled
    /\ ~loop.refresh
    /\ \A r \in 1..Len(requests) : requests[r].status \in {"fulfilled", "rejected"}
    /\ \A c \in 1..Len(engineCalls) : engineCalls[c].status # "running"
    /\ Len(tasks) < MaxLoopTasks

\* C28: after the user's edits the nudge feedback loop ends: the system gets
\* to a state with no pass in flight, no timer pending and every step ended,
\* and stays there, after fewer than MaxLoopTasks renderDocument calls
C28_LoopTerminates == <>[]LoopQuiescent

\* the loop has ended after the user's edit, a nudge and a renderDocument call
\* that the guard dropped: the later calls found every block in memory
C28_Witness ==
    /\ LoopQuiescent
    /\ loop.edits = MaxEdits
    /\ Len(tasks) >= 3
    /\ \E t \in 1..Len(tasks) : tasks[t].dropped
    /\ \E t \in 1..Len(tasks) :
          \E e \in 1..Len(tasks[t].log) : tasks[t].log[e].nudged
    /\ \A h \in HashesOf(loop.doc) : svgCache[h] # <<>>

\* the loads of node-tikzjax in flight
LoadsInFlight == {l \in 1..Len(loads) : loads[l] = "pending"}

\* C29: a load starts only when the engine is Unloaded and no load is in
\* flight, by the step of a request that then awaits it; a step that finds a
\* load memoized awaits that load and starts none; tex2svg is called only
\* when a load has completed; at no time are two loads in flight.
C29_LoadStep ==
    /\ Cardinality(LoadsInFlight') <= 1
    /\ loads' # loads /\ Len(loads') > Len(loads) =>
          /\ Unloaded
          /\ LoadsInFlight = {}
          /\ Len(loads') = Len(loads) + 1
          /\ tikzjaxLoadPromise' = Len(loads')
          /\ \E r \in 1..Len(requests) :
                /\ requests[r].status = "pending"
                /\ requests'[r].phase = "load"
                /\ requests'[r].load = Len(loads')
    /\ \A r \in 1..Len(requests) :
          (/\ requests[r].status = "pending" /\ requests'[r].status = "running"
           /\ ~tikzjaxLoaded /\ tikzjaxLoadPromise # 0) =>
              /\ Len(loads') = Len(loads)
              /\ requests'[r].load = tikzjaxLoadPromise
              /\ engineCalls' = engineCalls
    /\ Len(engineCalls') > Len(engineCalls) =>
          /\ tikzjaxLoaded
          /\ \E l \in 1..Len(loads) : loads[l] = "resolved"
          /\ LET r == engineCalls'[Len(engineCalls')].request IN
             requests[r].load # 0 => loads[requests[r].load] = "resolved"

C29_LoadedOnce == [][C29_LoadStep]_vars

\* the first request's step has started the load and awaits it, and a second
\* request has arrived while that load is in flight: it waits in the chain
\* and no other load was started
C29_Witness ==
    /\ LoadsInFlight = {tikzjaxLoadPromise}
    /\ Len(loads) = 1
    /\ \E r, q \in 1..Len(requests) :
          /\ r < q
          /\ Running(r, "load") /\ requests[r].load = tikzjaxLoadPromise
          /\ requests[q].status = "pending"

\* call t of renderDocument or retryBlock is inside _renderSingleBlock
InRenderSingleBlock(t) == tasks[t].pc = "render"
Settled(r) == requests[r].status \in {"fulfilled", "rejected"}

\* C30: _renderSingleBlock returns only when the step it appended has settled,
\* having written a result for its fingerprint to the memory cache, however
\* many earlier steps have ended before; and once that step has settled the
\* return can happen, whatever the state of the requests appended after it.
C30_ReturnStep ==
    \A t \in 1..Len(tasks) :
        LET r == tasks[t].request IN
        (InRenderSingleBlock(t) /\ ~InRenderSingleBlock(t)') =>
              /\ requests[r].task = t
              /\ Settled(r)
              /\ requests[r].result # <<>>
              /\ requests[r].hash = tasks[t].blocks[tasks[t].i].hash

C30_ReturnReady ==
    \A t \in 1..Len(tasks) :
        (InRenderSingleBlock(t) /\ Settled(tasks[t].request)) =>
            ENABLED RenderReturns(t)

C30_ReturnsAfterOwnStep == []C30_ReturnReady /\ [][C30_ReturnStep]_vars

\* retryBlock's call of _renderSingleBlock has returned: its step was chained
\* on the step of a pass and waited for it, and a step appended after it has
\* not ended
C30_Witness ==
    \E t \in 1..Len(tasks) :
        LET r == tasks[t].request IN
        /\ tasks[t].pc \in {"nudge", "done"}
        /\ r # 0
        /\ requests[r].pred # 0
        /\ Settled(r)
        /\ svgCache[requests[r].hash] = requests[r].result
        /\ \E q \in 1..Len(requests) : q > r /\ ~Settled(q)

\* C31: _isRendering is true exactly when a pass is in flight, also after a
\* pass that ended with an exception and after a call for a document with no
\* block; so every call that the guard dropped was made during a pass.
C31_FlagExact ==
    /\ isRendering = (PassesInFlight(tasks) # {})
    /\ \A t \in 1..Len(tasks) :
          /\ tasks[t].dropped => tasks[t].overlapped
          /\ (tasks[t].kind = "render" /\ tasks[t].blocks = <<>> /\ ~tasks[t].dropped) =>
                tasks[t].pc = "done"

\* a pass ended with an exception, the flag is clear, and a later call for a
\* document with blocks was not dropped
C31_Witness ==
    /\ ~isRendering
    /\ \E t, u \in 1..Len(tasks) :
          /\ t < u
          /\ tasks[t].kind = "render" /\ tasks[t].pc = "threw"
          /\ tasks[u].kind = "render" /\ tasks[u].blocks # <<>>
          /\ ~tasks[u].dropped /\ tasks[u].log # <<>>

\* the tex2svg calls that their step gave up on at the timeout and that
\* have not settled
Abandoned ==
    {c \in 1..Len(engineCalls) :
        /\ engineCalls[c].status = "running"
        /\ requests[engineCalls[c].request].outcome = "timeout"}

\* C32: the step in which a tex2svg call settles after its render step ended
\* by timeout leaves the memory cache and the persistent cache as they were:
\* the timeout error of its fingerprint and the results that later steps
\* stored stay.
C32_LateStep ==
    (\E c \in Abandoned : engineCalls'[c].status # "running") =>
        /\ svgCache' = svgCache
        /\ globalState' = globalState

C32_LateSettlementIgnored == [][C32_LateStep]_vars

\* the abandoned call of a step that timed out has settled after a later
\* step stored a result: the memory cache holds the timeout error of the
\* first and the result of the second, the persistent cache no entry for the
\* first
C32_Witness ==
    \E c \in 1..Len(engineCalls) :
        LET r == engineCalls[c].request IN
        /\ engineCalls[c].status = "settled"
        /\ requests[r].outcome = "timeout"
        /\ svgCache[requests[r].hash] = requests[r].result
        /\ IsError(svgCache[requests[r].hash])
        /\ globalState.cache[requests[r].hash] = <<>>
        /\ \E q \in 1..Len(requests) :
              /\ q > r /\ requests[q].hash # requests[r].hash
              /\ requests[q].outcome = "ok"
              /\ svgCache[requests[q].hash] = requests[q].result

\* C33: every svg in the memory cache was post-processed with the dark-mode
\* flag of the theme that is active now, whatever theme changes happened and
\* whatever was in flight when they did.
C33_ThemeOfResults ==
    \A h \in Hashes :
        IsSvg(svgCache[h]) =>
            /\ svgCache[h][1].svg[1].optimized
            /\ svgCache[h][1].svg[1].dark = IsDarkMode

\* under a dark theme the memory cache holds a dark svg that a pass made from
\* the entry the persistent cache kept from before the theme change
C33_Witness ==
    /\ IsDarkMode
    /\ \E t \in 1..Len(tasks), e \in 1..3 :
          /\ e <= Len(tasks[t].log)
          /\ tasks[t].log[e].read /\ tasks[t].log[e].request = 0
          /\ tasks[t].log[e].nudged
          /\ IsSvg(tasks[t].log[e].result)
          /\ svgCache[tasks[t].log[e].hash] = tasks[t].log[e].result
          /\ svgCache[tasks[t].log[e].hash][1].svg[1].dark

\* a render request has ended with the error of a failed load
LoadHasFailed == \E q \in 1..Len(requests) : requests[q].outcome = "loadError"

\* C34: after a render request has failed because the load of the engine
\* failed, the step of a later request that finds the engine not loaded
\* starts a new load and awaits it, with no resetEngine call in between.
C34_RetryStep ==
    \A r \in 1..Len(requests) :
        (/\ LoadHasFailed /\ ~tikzjaxLoaded
         /\ requests[r].status = "pending" /\ requests'[r].status = "running") =>
            /\ Len(loads') = Len(loads) + 1
            /\ loads'[Len(loads')] = "pending"
            /\ requests'[r].load = Len(loads')

C34_LoadRetried == [][C34_RetryStep]_vars

\* C35: for every text, the fingerprints the fence rule looks up are the
\* fingerprints of the blocks DocumentParser.parse returns, and the other
\* way round.
C35_SameBlocks ==
    text.pc = "both" =>
        {text.blocks[i].hash : i \in 1..Len(text.blocks)} = Range(text.fences)

\* the text was parsed
Parsed == text.pc \in {"parsed", "both"}

\* an opening tikz fence line of the text with no closing fence line after it
Unterminated(i) ==
    /\ MatchesOpeningFence(text.lines[i])
    /\ \A j \in (i + 1)..Len(text.lines) : ~MatchesClosingFence(text.lines[j])

\* C39: the blocks parse returns are complete fences, one after the other in
\* document order, each with the lines between its fences as its source; an
\* opening tikz fence with no closing fence line after it gives no block, and
\* an opening tikz fence that has one and lies outside every returned block
\* does not exist, so complete blocks before an unterminated fence are returned.
C39_CompleteBlocksInOrder ==
    Parsed =>
        /\ Len(text.blocks) = Len(text.ranges)
        /\ \A i \in 1..Len(text.ranges) :
              LET open == text.ranges[i].start - 1
                  close == text.ranges[i].end + 1
              IN /\ 1 <= open /\ open < close /\ close <= Len(text.lines)
                 /\ MatchesOpeningFence(text.lines[open])
                 /\ MatchesClosingFence(text.lines[close])
                 /\ \A k \in (open + 1)..(close - 1) : ~MatchesClosingFence(text.lines[k])
                 /\ text.blocks[i].source
                       = <<"\n">> \o LinesText(text.lines, open + 1, close - 1)
                 /\ i < Len(text.ranges) => close < text.ranges[i + 1].start - 1
        /\ \A i \in 1..Len(text.lines) :
              Unterminated(i) => \A k \in 1..Len(text.ranges) : text.ranges[k].start - 1 # i
        /\ \A i \in 1..Len(text.lines) :
              (MatchesOpeningFence(text.lines[i]) /\ ~Unterminated(i))
                  => \E k \in 1..Len(text.ranges) :
                        text.ranges[k].start - 1 <= i /\ i <= text.ranges[k].end

\* the text has a complete tikz block and then an opening tikz fence that is
\* never closed, and parse returned the one block
C39_Witness ==
    /\ Parsed
    /\ Len(text.blocks) = 1
    /\ text.blocks[1].source = SrcA
    /\ \E i \in 1..Len(text.lines) : i > text.ranges[1].end + 1 /\ Unterminated(i)

\* the text has two complete tikz blocks with different sources, returned in
\* the order of the text
C39_WitnessOrder ==
    /\ Parsed
    /\ Len(text.blocks) = 2
    /\ text.blocks[1].source # text.blocks[2].source

\* the compat directives of a source, in order
CompatDirectives(tex) == SelectSeq(tex, LAMBDA line : line.kind = "pgfplotsset")

\* C40: the engine gets as many compat directives as the source has; one with
\* a version above 1.16 arrives as compat=1.16 and one with a version of 1.16
\* or below arrives with its own version.
C40_CompatClamped ==
    text.pc = "invoked" =>
        LET given == CompatDirectives(text.tex)
            passed == CompatDirectives(text.processed)
        IN /\ Len(passed) = Len(given)
           /\ \A i \in 1..Len(given) :
                 passed[i].minor = IF given[i].minor > 16 THEN 16 ELSE given[i].minor

\* the step is a call of retryBlock for the fingerprint
RetryBlockCalled(hash) ==
    /\ Len(tasks') = Len(tasks) + 1
    /\ tasks'[Len(tasks')].kind = "retry"
    /\ tasks'[Len(tasks')].blocks[1].hash = hash

\* the step empties the memory cache
WholesaleClear == svgCache' = EmptySvgCache

\* C36: a result held in the memory cache stays as it is in every step that
\* is neither a wholesale clear nor a call of retryBlock for its fingerprint,
\* so getSvg returns the same result for the fingerprint after the step.
C36_ResultStep ==
    \A hash \in Hashes :
        (svgCache[hash] # <<>> /\ svgCache'[hash] # svgCache[hash])
            => (WholesaleClear \/ RetryBlockCalled(hash))

C36_ResultsStay == [][C36_ResultStep]_vars

\* C37: a get of a stored fingerprint leaves the fingerprint, the artifact
\* and the timestamp of its entry as stored, the entries of the other
\* fingerprints and the index as they were; a get of a fingerprint with no
\* entry leaves the whole store as it was.
C37_GetFrame ==
    lastCall'.op = "get" =>
        LET h == lastCall'.hash[1] IN
        /\ globalState'.index = globalState.index
        /\ \A g \in Hashes \ {h} : globalState'.cache[g] = globalState.cache[g]
        /\ globalState.cache[h] = <<>> => globalState' = globalState
        /\ globalState.cache[h] # <<>> =>
              /\ globalState'.cache[h] # <<>>
              /\ globalState'.cache[h][1].hash = globalState.cache[h][1].hash
              /\ globalState'.cache[h][1].svg = globalState.cache[h][1].svg
              /\ globalState'.cache[h][1].timestamp = globalState.cache[h][1].timestamp

C37_GetKeepsEntry == [][C37_GetFrame]_vars

\* an entry created at the second time has been retrieved at least twice and
\* still carries that time
C37_Witness ==
    /\ lastCall.op = "get"
    /\ lastCall.ret # <<>>
    /\ \E h \in Hashes :
          /\ lastCall.hash = <<h>>
          /\ globalState.cache[h] # <<>>
          /\ globalState.cache[h][1].timestamp = 2
          /\ globalState.cache[h][1].accessCount >= 2

\* C38: a call of getStats leaves the store as it was: every entry, its
\* accessCount included, and the index.
C38_StatsStep == lastCall'.op = "getStats" => globalState' = globalState

C38_StatsReadOnly == [][C38_StatsStep]_vars
====
